---------------------------- MODULE Spec2Model ----------------------------
(***************************************************************************)
(* Verification model of mail-studio: the MJML document core (schema,      *)
(* serializer, parser, templates) and the editor surfaces around it (the   *)
(* source editor's debounced sync, the locked-region hook, the social      *)
(* block editor).                                                          *)
(*                                                                         *)
(* Markup is modelled as a sequence of tokens (opening tag, closing tag,   *)
(* self-closing tag, text run); a node's textual content is the token      *)
(* sequence of the markup between its tags.                                *)
(***************************************************************************)
EXTENDS Integers, Sequences, FiniteSets, TLC

VARIABLES
    \* ---- compiler round trip (schema / serializer / parser)
    document,       \* the store's document tree (an mj-body node)
    nextId,         \* generateId(): the next unused identifier
    markup,         \* the markup text last produced by generateMjml (tokens)
    unclosedAt,     \* index in markup of the opening tag whose close was deleted (0: none)
    headSettings,   \* the head settings H handed to generateMjml
    markupOf,       \* "none" | "generated" | "unclosed" | "typed"
    parsed,         \* result of the last parseMjmlToNode call
    compPc,         \* "idle" | "build" | "text" | "parsed"
    \* ---- source editor (CodeEditor)
    editedCode,     \* [set, text]: the hand-edited markup, or not set (null)
    error,          \* the error banner ("" when null)
    syncTimers,     \* pending auto-sync timeouts: [code, remaining]
    sinceChange,    \* ms since the code last changed (saturates at DebounceMs)
    keystrokes,     \* code changes since the last auto-sync parse (saturates at 2)
    lastSync,       \* what the last auto-sync / Apply Changes call did
    \* ---- findLockedRegions, one loop iteration at a time
    code,           \* the source text: a sequence of lines, each a sequence of tokens
    lineIdx,        \* the loop index i (0-based)
    lockedStack,    \* open locked elements: [tagName, startLine, startColumn]
    regions,        \* the regions found so far
    closePos,       \* where in the line the closing-tag regex resumes
    scanPc,         \* "idle" | "open" | "close" | "done"
    lastClose,      \* the last closing tag handled: the stack before and after
    \* ---- locked-region hook (useLockedRegions)
    modelValue,         \* the editor model's content: lines of tokens
    editorMounted,      \* editorRef.current is set and the listeners are attached
    lockedRegionsRef,   \* the regions the hook last computed
    previousContentRef, \* the content at the last decoration update
    isUndoingRef,       \* a revert is in progress
    hookTimers,         \* pending timeouts in expiry order: [kind, dur]
    lockedWarning,      \* the warning message ("" when null)
    changeCount,        \* content changes so far
    lastChange,         \* the last content change and what the hook did with it
    \* ---- identifiers (templates, social block editor)
    clones,         \* trees handed out by cloneDocumentWithNewIds: [source, tree]
    everIds,        \* every id that was ever in the document
    lastAdd,        \* the last handleAddSocial call
    \* ---- canvas drag and drop (Editor in EditMode.tsx)
    dragActive,     \* active.data.current of the drag in progress
    lastDrop,       \* what the last handleDragEnd did
    \* ---- send-email route (POST)
    sendRequest,    \* the request being handled: its parsed body
    sendPc,         \* "idle" | "json" | "account" | "resend" | "sendMail" | "done"
    responses,      \* the responses returned for the request
    sendAttempts,   \* calls of resend.emails.send / transporter.sendMail for the request
    transport,      \* the client created for the request: "none" | "resend" | "ethereal" | "smtp"
    sendOutcome,    \* how the awaited call of the request ended: [kind, isError, message]
    \* ---- keydown listener of the locked-region hook
    lastKey,        \* the last keydown event and what the listener did with it
    \* ---- isRangeInLockedRegion on its own
    ovRange,        \* the range handed to isRangeInLockedRegion
    ovRegions,      \* the locked regions handed to it
    ovResult,       \* [set, value]: the boolean it returned, once it has
    \* ---- edit mode (EditMode, AddBlockButton)
    lastBlock       \* the last handleAddBlock call: its button, its target, what came of it

\* state shared by every surface: the store and the id supply
storeVars == <<document, nextId, headSettings>>
compVars == <<markup, unclosedAt, markupOf, parsed, compPc>>
editorVars == <<editedCode, error, syncTimers, sinceChange, keystrokes, lastSync>>
scanVars == <<code, lineIdx, lockedStack, regions, closePos, scanPc, lastClose>>
hookVars == <<modelValue, editorMounted, lockedRegionsRef, previousContentRef, isUndoingRef,
              hookTimers, lockedWarning, changeCount, lastChange>>
idVars == <<clones, everIds, lastAdd>>
canvasVars == <<dragActive, lastDrop>>
sendVars == <<sendRequest, sendPc, responses, sendAttempts, transport, sendOutcome>>
keyVars == <<lastKey>>
overlapVars == <<ovRange, ovRegions, ovResult>>
editModeVars == <<lastBlock>>

\* what the actions of one surface leave alone
notCompVars == <<editorVars, scanVars, hookVars, idVars, canvasVars, sendVars, keyVars, overlapVars, editModeVars>>
notEditorVars == <<compVars, scanVars, hookVars, idVars, canvasVars, sendVars, keyVars, overlapVars, editModeVars>>
notScanVars == <<storeVars, compVars, editorVars, hookVars, idVars, canvasVars, sendVars, keyVars, overlapVars, editModeVars>>
notHookVars == <<storeVars, compVars, editorVars, scanVars, idVars, canvasVars, sendVars, keyVars, overlapVars, editModeVars>>
notIdVars == <<headSettings, compVars, editorVars, scanVars, hookVars, canvasVars, sendVars, keyVars, overlapVars, editModeVars>>
notCanvasVars == <<headSettings, compVars, editorVars, scanVars, hookVars, idVars, sendVars, keyVars, overlapVars, editModeVars>>
notSendVars == <<storeVars, compVars, editorVars, scanVars, hookVars, idVars, canvasVars, keyVars, overlapVars, editModeVars>>
notKeyVars == <<storeVars, compVars, editorVars, scanVars, hookVars, idVars, canvasVars, sendVars, overlapVars, editModeVars>>
notOverlapVars == <<storeVars, compVars, editorVars, scanVars, hookVars, idVars, canvasVars, sendVars, keyVars, editModeVars>>
notEditModeVars == <<compVars, editorVars, scanVars, hookVars, idVars, canvasVars, sendVars, keyVars, overlapVars>>

vars == <<document, nextId, headSettings, markup, unclosedAt, markupOf, parsed, compPc,
          editedCode, error, syncTimers, sinceChange, keystrokes, lastSync,
          code, lineIdx, lockedStack, regions, closePos, scanPc, lastClose,
          modelValue, editorMounted, lockedRegionsRef, previousContentRef, isUndoingRef,
          hookTimers, lockedWarning, changeCount, lastChange,
          clones, everIds, lastAdd,
          dragActive, lastDrop,
          sendRequest, sendPc, responses, sendAttempts, transport, sendOutcome,
          lastKey,
          ovRange, ovRegions, ovResult,
          lastBlock>>

-----------------------------------------------------------------------------
(* Generic helpers *)

SeqToSet(s) == {s[i] : i \in 1..Len(s)}

RECURSIVE SumSeq(_)
SumSeq(s) == IF s = <<>> THEN 0 ELSE Head(s) + SumSeq(Tail(s))

RECURSIVE Flatten(_)
Flatten(ss) == IF ss = <<>> THEN <<>> ELSE Head(ss) \o Flatten(Tail(ss))

Keys(pairs) == {p[1] : p \in pairs}

RemoveAt(seq, i) == SubSeq(seq, 1, i - 1) \o SubSeq(seq, i + 1, Len(seq))
InsertAt(seq, i, x) == SubSeq(seq, 1, i - 1) \o <<x>> \o SubSeq(seq, i, Len(seq))

-----------------------------------------------------------------------------
(* Component schema *)

\* SectionNode.tsx: what a section accepts
sectionAcceptTypes == {"mj-column"}

\* ColumnNode.tsx: what a column accepts
columnAcceptTypes ==
    {"mj-text", "mj-image", "mj-button", "mj-divider", "mj-spacer", "mj-social",
     "mj-navbar", "mj-accordion", "mj-carousel", "mj-table", "mj-raw"}

\* The closed set of component kinds
ComponentTypes ==
    {"mj-body", "mj-section", "mj-column", "mj-social-element"}
        \cup sectionAcceptTypes \cup columnAcceptTypes

getAllowedChildren(type) ==
    CASE type = "mj-body"    -> {"mj-section"}
      [] type = "mj-section" -> sectionAcceptTypes
      [] type = "mj-column"  -> columnAcceptTypes
      [] type = "mj-social"  -> {"mj-social-element"}
      [] OTHER               -> {}

canContain(parentType, childType) == childType \in getAllowedChildren(parentType)

\* Leaf types that carry text/HTML content between their tags
TextBearingTypes == {"mj-text", "mj-button", "mj-raw", "mj-social-element"}

\* Structural types: those that accept children
StructuralTypes == {t \in ComponentTypes : getAllowedChildren(t) # {}}

\* Schema default attributes, as a set of <<name, value>> pairs
DefaultProps(type) ==
    CASE type = "mj-text"           -> {<<"align", "left">>, <<"color", "#000">>}
      [] type = "mj-section"        -> {<<"padding", "20px 0">>}
      [] type = "mj-column"         -> {<<"padding", "10px">>}
      [] type = "mj-divider"        -> {<<"border-width", "1px">>}
      [] type = "mj-social"         -> {<<"align", "center">>}
      [] type = "mj-social-element" -> {<<"href", "#">>}
      [] OTHER                      -> {}

\* overrides win over defaults; every key stays unique
MergeProps(overrides, defaults) ==
    overrides \cup {p \in defaults : p[1] \notin Keys(overrides)}

\* Tokens of the markup language
OpenTok(tag, attrs)  == [k |-> "open",  tag |-> tag, attrs |-> attrs, s |-> ""]
CloseTok(tag)        == [k |-> "close", tag |-> tag, attrs |-> {},    s |-> ""]
SelfTok(tag, attrs)  == [k |-> "self",  tag |-> tag, attrs |-> attrs, s |-> ""]
TextTok(s)           == [k |-> "text",  tag |-> "",  attrs |-> {},    s |-> s]
\* content that cannot be split into tokens at all (fatal tokenization failure)
BadTok               == [k |-> "bad",   tag |-> "",  attrs |-> {},    s |-> ""]
\* indentation / line break emitted by the serializer
WsTok                == TextTok(" ")

IsWhitespace(s) == s \in {"", " "}

MkNode(id, type, props, children, content) ==
    [id |-> id, type |-> type, props |-> props, children |-> children,
     content |-> content]

\* default text payload of the text-bearing types
DefaultContent(type) ==
    CASE type = "mj-text"           -> <<TextTok("Hi")>>
      [] type = "mj-button"         -> <<TextTok("Click")>>
      [] type = "mj-raw"            -> <<OpenTok("p", {}), TextTok("raw"), CloseTok("p")>>
      [] type = "mj-social-element" -> <<TextTok("Facebook")>>
      [] OTHER                      -> <<>>

\* the catalog's predefined default social elements (names only)
defaultSocialElements == <<"facebook", "twitter">>

\* createNode(type, overrides): the children take the ids after the node's own
createNode(type, overrides, id) ==
    MkNode(id, type, MergeProps(overrides, DefaultProps(type)),
           IF type = "mj-social"
           THEN [i \in 1..Len(defaultSocialElements) |->
                    MkNode(id + i, "mj-social-element",
                           MergeProps({<<"name", defaultSocialElements[i]>>},
                                      DefaultProps("mj-social-element")),
                           <<>>, DefaultContent("mj-social-element"))]
           ELSE <<>>,
           DefaultContent(type))

RECURSIVE AllNodes(_)
AllNodes(n) == {n} \cup UNION {AllNodes(n.children[i]) : i \in 1..Len(n.children)}

\* the store's addChildNode: append under the node with this id
RECURSIVE AddChildTo(_, _, _)
AddChildTo(n, pid, child) ==
    IF n.id = pid
    THEN [n EXCEPT !.children = Append(n.children, child)]
    ELSE [n EXCEPT !.children =
            [i \in 1..Len(n.children) |-> AddChildTo(n.children[i], pid, child)]]

RECURSIVE NodeCount(_)
NodeCount(n) ==
    1 + SumSeq([i \in 1..Len(n.children) |-> NodeCount(n.children[i])])

RECURSIVE NodeIds(_)
NodeIds(n) ==
    <<n.id>> \o Flatten([i \in 1..Len(n.children) |-> NodeIds(n.children[i])])

\* a tree without its identifiers: structural equality modulo ids
RECURSIVE Strip(_)
Strip(n) ==
    [type |-> n.type, props |-> n.props, content |-> n.content,
     children |-> [i \in 1..Len(n.children) |-> Strip(n.children[i])]]


-----------------------------------------------------------------------------
(* Serializer: tree -> markup *)

\* (mutant) the tag is written without attributes
PropsToAttrs_None(type, props) == {}

\* attributes equal to the schema default are omitted from the tag
PropsToAttrs(type, props) == props \ DefaultProps(type)

\* one tag per node; children one level deeper; WsTok is the indentation
RECURSIVE nodeToMjml(_, _)
nodeToMjml(node, depth) ==
    LET attrs == PropsToAttrs(node.type, node.props)
        kids  == Flatten([i \in 1..Len(node.children) |->
                            nodeToMjml(node.children[i], depth + 1)])
    IN  IF node.content # <<>>
        THEN <<WsTok, OpenTok(node.type, attrs)>> \o node.content
                 \o <<CloseTok(node.type)>>
        ELSE IF node.children = <<>> /\ node.type \notin StructuralTypes
        THEN <<WsTok, SelfTok(node.type, attrs)>>
        ELSE <<WsTok, OpenTok(node.type, attrs)>> \o kids
                 \o <<WsTok, CloseTok(node.type)>>

\* the head block: fonts, breakpoint, per-tag default attributes
headToMjml(head) ==
    <<WsTok, OpenTok("mj-head", {})>>
        \o [i \in 1..Len(head.fonts) |-> SelfTok("mj-font", {<<"name", head.fonts[i]>>})]
        \o (IF head.breakpoint = "" THEN <<>>
            ELSE <<SelfTok("mj-breakpoint", {<<"width", head.breakpoint>>})>>)
        \o <<OpenTok("mj-attributes", {})>>
        \o [i \in 1..Len(head.attributes) |->
                SelfTok(head.attributes[i].tag, head.attributes[i].attrs)]
        \o <<CloseTok("mj-attributes"), WsTok, CloseTok("mj-head")>>

generateMjml(documentRoot, head) ==
    <<OpenTok("mjml", {})>> \o headToMjml(head) \o nodeToMjml(documentRoot, 1)
        \o <<WsTok, CloseTok("mjml")>>

-----------------------------------------------------------------------------
(* Parser: markup -> tree.  A stack of open elements; stack[1] is a        *)
(* virtual root that collects the top-level nodes.                         *)

RootFrame ==
    [id |-> 0, type |-> "#root", tag |-> "#root", props |-> {}, children |-> <<>>,
     content |-> <<>>, capture |-> FALSE, verbatim |-> FALSE, depth |-> 0]

FrameNode(f) == MkNode(f.id, f.type, f.props, f.children, f.content)

AppendChild(stack, node) ==
    [stack EXCEPT ![Len(stack)].children = Append(@, node)]

\* close the top entry: it becomes the last child of the entry below it
PopAttach(stack) ==
    AppendChild(SubSeq(stack, 1, Len(stack) - 1), FrameNode(stack[Len(stack)]))

\* close every entry at index j and above
RECURSIVE PopTo(_, _)
PopTo(stack, j) == IF Len(stack) < j THEN stack ELSE PopTo(PopAttach(stack), j)

\* index of the nearest open entry with this tag (0: none); the root never matches
FindOpen(stack, tag) ==
    LET hits == {j \in 2..Len(stack) : stack[j].tag = tag}
    IN  IF hits = {} THEN 0 ELSE CHOOSE j \in hits : \A h \in hits : h <= j

\* closing-tag recovery: close through the nearest match, ignore a stray one
CloseRecover(stack, tag) ==
    LET j == FindOpen(stack, tag)
    IN  IF j = 0 THEN stack ELSE PopTo(stack, j)

RawNode(id, toks) == MkNode(id, "mj-raw", {}, <<>>, toks)

\* (mutant) every known tag is taken where it stands
Placeable_Anywhere(parentType, tag) == TRUE

\* a tag may open a node under the top entry when the schema allows it there
Placeable(parentType, tag) == parentType = "#root" \/ canContain(parentType, tag)

\* (mutant) entries still open at the end of the input are thrown away
CloseAtEnd_Discard(stack) == SubSeq(stack, 1, 1)

\* entries still open at the end of the input are closed
CloseAtEnd(stack) == PopTo(stack, 2)

\* an opening or self-closing tag met while the top entry is structural
ParseStartTag(ps, tok) ==
    LET top     == ps.stack[Len(ps.stack)]
        known   == tok.tag \in ComponentTypes
        allowed == Placeable(top.type, tok.tag)
        props   == MergeProps(tok.attrs, DefaultProps(tok.tag))
        frame   == [id |-> ps.nid, type |-> tok.tag, tag |-> tok.tag, props |-> props,
                    children |-> <<>>, content |-> <<>>,
                    capture |-> tok.tag \in TextBearingTypes, verbatim |-> FALSE,
                    depth |-> 0]
    IN  IF known /\ allowed
        THEN IF tok.k = "self" \/ tok.tag \notin (StructuralTypes \cup TextBearingTypes)
             THEN \* self-closing tags and void leaf types: a childless node
                  [ps EXCEPT !.stack = AppendChild(@, MkNode(ps.nid, tok.tag, props, <<>>, <<>>)),
                             !.nid = @ + 1]
             ELSE [ps EXCEPT !.stack = Append(@, frame), !.nid = @ + 1]
        ELSE \* unknown or misplaced tag: a raw node carrying the markup verbatim
             IF tok.k = "self"
             THEN [ps EXCEPT !.stack = AppendChild(@, RawNode(ps.nid, <<tok>>)),
                             !.nid = @ + 1]
             ELSE [ps EXCEPT !.stack = Append(@, [frame EXCEPT !.type = "mj-raw",
                                                   !.props = {}, !.content = <<tok>>,
                                                   !.capture = TRUE, !.verbatim = TRUE]),
                             !.nid = @ + 1]

\* a token met while the top entry captures its content verbatim
ParseCaptured(ps, tok) ==
    LET n   == Len(ps.stack)
        top == ps.stack[n]
        keep == [ps EXCEPT !.stack[n].content = Append(@, tok)]
    IN  IF tok.k = "close" /\ tok.tag = top.tag
        THEN IF top.depth > 0
             THEN [keep EXCEPT !.stack[n].depth = @ - 1]
             ELSE [ps EXCEPT !.stack =
                      PopAttach(IF top.verbatim THEN keep.stack ELSE ps.stack)]
        ELSE IF tok.k = "close" /\ FindOpen(ps.stack, tok.tag) # 0
        THEN [ps EXCEPT !.stack = CloseRecover(@, tok.tag)]
        ELSE IF tok.k = "open" /\ tok.tag = top.tag
        THEN [keep EXCEPT !.stack[n].depth = @ + 1]
        ELSE keep

ParseToken(ps, tok) ==
    LET top == ps.stack[Len(ps.stack)]
    IN  IF ps.inHead
        THEN \* the head block is not part of the body tree
             IF tok.k = "close" /\ tok.tag = "mj-head" THEN [ps EXCEPT !.inHead = FALSE]
             ELSE IF tok.k \in {"open", "self"} /\ tok.tag = "mj-body"
             THEN ParseStartTag([ps EXCEPT !.inHead = FALSE], tok)
             ELSE ps
        ELSE IF top.capture THEN ParseCaptured(ps, tok)
        ELSE IF tok.tag = "mjml" THEN ps
        ELSE IF tok.tag = "mj-head"
        THEN [ps EXCEPT !.inHead = (tok.k = "open")]
        ELSE IF tok.k \in {"open", "self"} THEN ParseStartTag(ps, tok)
        ELSE IF tok.k = "close" THEN [ps EXCEPT !.stack = CloseRecover(@, tok.tag)]
        ELSE \* text between tags of a structural type
             IF IsWhitespace(tok.s) \/ top.type = "#root"
                    \/ ~canContain(top.type, "mj-text")
             THEN ps
             ELSE [ps EXCEPT !.stack = AppendChild(@,
                        MkNode(ps.nid, "mj-text", DefaultProps("mj-text"), <<>>, <<tok>>)),
                             !.nid = @ + 1]

RECURSIVE ParseFrom(_, _, _)
ParseFrom(toks, i, ps) ==
    IF i > Len(toks) THEN ps ELSE ParseFrom(toks, i + 1, ParseToken(ps, toks[i]))

NoNode == MkNode(0, "", {}, <<>>, <<>>)

\* parseMjmlToNode(text): kind "node" (a tree), "null" (no element at
\* all) or "throw" (ParseError); firstId is the generateId() supply
parseMjmlToNode(toks, firstId) ==
    IF \E i \in 1..Len(toks) : toks[i].k = "bad"
    THEN [kind |-> "throw", node |-> NoNode, message |-> "ParseError", next |-> firstId]
    ELSE LET ps   == ParseFrom(toks, 1, [stack |-> <<RootFrame>>, nid |-> firstId,
                                         inHead |-> FALSE])
             root == CloseAtEnd(ps.stack)[1]
         IN  IF root.children = <<>>
             THEN [kind |-> "null", node |-> NoNode, message |-> "", next |-> ps.nid]
             ELSE [kind |-> "node", node |-> root.children[1], message |-> "",
                   next |-> ps.nid]


-----------------------------------------------------------------------------
(* The values each surface's state holds while that surface is not in use. *)

\* emptyDocument(): body -> one section -> one column
emptyDocument ==
    AddChildTo(AddChildTo(createNode("mj-body", {}, 1), 1, createNode("mj-section", {}, 2)),
               2, createNode("mj-column", {}, 3))

\* head settings: fonts, breakpoint, per-tag default attributes
NoHead == [fonts |-> <<>>, breakpoint |-> "", attributes |-> <<>>]

HeadChoices ==
    {NoHead,
     [fonts |-> <<"Inter">>, breakpoint |-> "480px",
      attributes |-> <<[tag |-> "mj-text", attrs |-> {<<"color", "red">>}]>>]}

\* the store as a new session finds it
StoreIdle ==
    /\ document = emptyDocument
    /\ nextId = 4
    /\ headSettings = NoHead

NoResult == [kind |-> "none", node |-> NoNode, message |-> "", next |-> 0]
NoCode == [set |-> FALSE, text |-> <<>>]
NoSync == [op |-> "none", kind |-> "none", before |-> NoNode, node |-> NoNode,
           text |-> <<>>, latest |-> <<>>, elapsed |-> 0, keystrokes |-> 0]

EditorIdle ==
    /\ editedCode = NoCode
    /\ error = ""
    /\ syncTimers = <<>>
    /\ sinceChange = 0
    /\ keystrokes = 0
    /\ lastSync = NoSync

NoClose == [set |-> FALSE, tag |-> "", before |-> <<>>, after |-> <<>>]

ScanIdle ==
    /\ code = <<>>
    /\ lineIdx = 0
    /\ lockedStack = <<>>
    /\ regions = <<>>
    /\ closePos = 1
    /\ scanPc = "idle"
    /\ lastClose = NoClose

CompIdle ==
    /\ markup = <<>>
    /\ unclosedAt = 0
    /\ markupOf = "none"
    /\ parsed = NoResult
    /\ compPc = "idle"

NoChange == [set |-> FALSE, inText |-> FALSE, inRef |-> FALSE, undoing |-> FALSE,
             reverted |-> FALSE, undos |-> 0, refCurrent |-> TRUE, warnPending |-> FALSE]

HookIdle ==
    /\ modelValue = <<>>
    /\ editorMounted = FALSE
    /\ lockedRegionsRef = <<>>
    /\ previousContentRef = <<>>
    /\ isUndoingRef = FALSE
    /\ hookTimers = <<>>
    /\ lockedWarning = ""
    /\ changeCount = 0
    /\ lastChange = NoChange

NoAdd == [set |-> FALSE, id |-> 0, ever |-> {}]

IdsIdle ==
    /\ clones = <<>>
    /\ everIds = {}
    /\ lastAdd = NoAdd

NoDrag == [type |-> "none", componentType |-> "", nodeId |-> 0]
NoDrop == [set |-> FALSE, type |-> "none", accepted |-> FALSE]

CanvasIdle ==
    /\ dragActive = NoDrag
    /\ lastDrop = NoDrop

Undefined == "<undefined>"
NoEmail == [from |-> Undefined, to |-> Undefined, subject |-> Undefined, html |-> Undefined]
NoSmtp == [host |-> Undefined, user |-> Undefined, pass |-> Undefined]
NoBody(kind) ==
    [body |-> kind, mode |-> Undefined, resendApiKey |-> Undefined, smtp |-> NoSmtp, email |-> NoEmail]
NoRequest == NoBody("none")
NoOutcome == [kind |-> "none", isError |-> FALSE, message |-> ""]

SendIdle ==
    /\ sendRequest = NoRequest
    /\ sendPc = "idle"
    /\ responses = <<>>
    /\ sendAttempts = 0
    /\ transport = "none"
    /\ sendOutcome = NoOutcome

NoKey == [set |-> FALSE, keyCode |-> "", ctrlKey |-> FALSE, metaKey |-> FALSE,
          shiftKey |-> FALSE, inLocked |-> FALSE, defaultPrevented |-> FALSE,
          propagationStopped |-> FALSE, warned |-> FALSE]

KeysIdle == lastKey = NoKey

NoRange == [startLineNumber |-> 0, startColumn |-> 0, endLineNumber |-> 0, endColumn |-> 0]

NoReturn == [set |-> FALSE, value |-> FALSE]

OverlapIdle ==
    /\ ovRange = NoRange
    /\ ovRegions = <<>>
    /\ ovResult = NoReturn

NoBlock == [set |-> FALSE, parentId |-> 0, type |-> "", targetId |-> 0, targetType |-> "",
            inserted |-> FALSE]

EditModeIdle == lastBlock = NoBlock

-----------------------------------------------------------------------------
(* Locked regions of the source text.  A line is a sequence of tokens; a   *)
(* tag is locked when it carries data-locked="true".  Columns count        *)
(* characters: a tag name takes one character.                             *)

Locked == {<<"data-locked", "true">>}
IsLockedTag(tok) == <<"data-locked", "true">> \in tok.attrs

\* characters a token takes in its line
TokLen(tok) ==
    (CASE tok.k = "open"  -> 3      \* <t>
       [] tok.k = "close" -> 4      \* </t>
       [] tok.k = "self"  -> 4      \* <t/>
       [] OTHER           -> 1)
    + (IF IsLockedTag(tok) THEN 19 ELSE 0)   \* ' data-locked="true"'

LineLen(line) == SumSeq([i \in 1..Len(line) |-> TokLen(line[i])])

\* match.index of the token at position p of the line
TokIndex(line, p) == LineLen(SubSeq(line, 1, p - 1))

Region(startLine, endLine, startColumn, endColumn) ==
    [startLine |-> startLine, endLine |-> endLine,
     startColumn |-> startColumn, endColumn |-> endColumn]

\* one match of openTagRegex: a self-closing locked tag is a region of its
\* own, an opening locked tag is pushed on the stack
OpenTagMatch(st, line, p, lineNumber) ==
    LET tok == line[p]
    IN  IF tok.k = "self"
        THEN [st EXCEPT !.regions = Append(@,
                Region(lineNumber, lineNumber, TokIndex(line, p) + 1,
                       TokIndex(line, p) + TokLen(tok) + 1))]
        ELSE [st EXCEPT !.stack = Append(@,
                [tagName |-> tok.tag, startLine |-> lineNumber,
                 startColumn |-> TokIndex(line, p) + 1])]

\* the while loop over openTagRegex matches of one line
RECURSIVE OpenTagsFrom(_, _, _, _)
OpenTagsFrom(st, line, p, lineNumber) ==
    IF p > Len(line) THEN st
    ELSE OpenTagsFrom(
            IF line[p].k \in {"open", "self"} /\ IsLockedTag(line[p])
            THEN OpenTagMatch(st, line, p, lineNumber) ELSE st,
            line, p + 1, lineNumber)

\* index of the topmost stack entry with this tag name (0: none)
StackMatch(stack, tagName) ==
    LET hits == {j \in 1..Len(stack) : stack[j].tagName = tagName}
    IN  IF hits = {} THEN 0 ELSE CHOOSE j \in hits : \A h \in hits : h <= j

\* one match of closingTagRegex: the topmost entry of that name is spliced
\* out of the stack and its region recorded
CloseTagMatch(st, tagName, lineNumber, lineLength) ==
    LET j == StackMatch(st.stack, tagName)
    IN  IF j = 0 THEN st
        ELSE [stack   |-> RemoveAt(st.stack, j),
              regions |-> Append(st.regions,
                            Region(st.stack[j].startLine, lineNumber, 1, lineLength + 1))]

\* the while loop over closingTagRegex matches of one line
RECURSIVE CloseTagsFrom(_, _, _, _)
CloseTagsFrom(st, line, p, lineNumber) ==
    IF p > Len(line) THEN st
    ELSE CloseTagsFrom(
            IF line[p].k = "close"
            THEN CloseTagMatch(st, line[p].tag, lineNumber, LineLen(line)) ELSE st,
            line, p + 1, lineNumber)

\* one iteration of the loop over the lines
ScanLine(st, line, lineNumber) ==
    LET opened == OpenTagsFrom(st, line, 1, lineNumber)
    IN  IF Len(opened.stack) > 0 THEN CloseTagsFrom(opened, line, 1, lineNumber)
        ELSE opened

RECURSIVE ScanLinesFrom(_, _, _)
ScanLinesFrom(st, lines, i) ==
    IF i > Len(lines) THEN st ELSE ScanLinesFrom(ScanLine(st, lines[i], i), lines, i + 1)

findLockedRegions(lines) ==
    ScanLinesFrom([stack |-> <<>>, regions |-> <<>>], lines, 1).regions

\* most lines of a source text
MaxLines == 4

\* the lines a source text is made of
LineAlphabet ==
    {<<OpenTok("div", Locked)>>,
     <<OpenTok("mj-text", Locked)>>,
     <<OpenTok("div", {})>>,
     <<CloseTok("div")>>,
     <<CloseTok("mj-text")>>,
     <<TextTok("x")>>,
     <<SelfTok("mj-divider", Locked)>>,
     <<OpenTok("mj-text", Locked), TextTok("x"), CloseTok("mj-text")>>,
     <<CloseTok("div"), OpenTok("div", Locked)>>}

SourceTexts == UNION {[1..n -> LineAlphabet] : n \in 1..MaxLines}

\* position of the next closing tag of the line at or after p (0: none)
NextClose(line, p) ==
    LET hits == {q \in p..Len(line) : line[q].k = "close"}
    IN  IF hits = {} THEN 0 ELSE CHOOSE q \in hits : \A h \in hits : q <= h

ScanInit ==
    /\ CompIdle /\ EditorIdle /\ HookIdle /\ IdsIdle /\ CanvasIdle /\ SendIdle /\ KeysIdle /\ OverlapIdle /\ EditModeIdle
    /\ StoreIdle
    /\ code \in SourceTexts
    /\ lineIdx = 0
    /\ lockedStack = <<>>
    /\ regions = <<>>
    /\ closePos = 1
    /\ scanPc = "open"
    /\ lastClose = NoClose

\* lines 39-60: every opening locked tag of line i
ScanOpenTags ==
    /\ scanPc = "open"
    /\ LET st == OpenTagsFrom([stack |-> lockedStack, regions |-> regions],
                              code[lineIdx + 1], 1, lineIdx + 1)
       IN  /\ lockedStack' = st.stack
           /\ regions' = st.regions
    /\ scanPc' = "close"
    /\ closePos' = 1
    /\ lastClose' = NoClose
    /\ UNCHANGED <<code, lineIdx>>
    /\ UNCHANGED notScanVars

\* lines 65-81: one closing tag of line i
ScanCloseTag ==
    /\ scanPc = "close"
    /\ Len(lockedStack) > 0 \/ closePos > 1
    /\ NextClose(code[lineIdx + 1], closePos) # 0
    /\ LET line == code[lineIdx + 1]
           q    == NextClose(line, closePos)
           st   == CloseTagMatch([stack |-> lockedStack, regions |-> regions],
                                 line[q].tag, lineIdx + 1, LineLen(line))
       IN  /\ lockedStack' = st.stack
           /\ regions' = st.regions
           /\ closePos' = q + 1
           /\ lastClose' = [set |-> TRUE, tag |-> line[q].tag,
                            before |-> lockedStack, after |-> st.stack]
    /\ UNCHANGED <<code, lineIdx, scanPc>>
    /\ UNCHANGED notScanVars

\* the line has no further closing tag (or the stack was empty at line 63)
ScanNextLine ==
    /\ scanPc = "close"
    /\ \/ (Len(lockedStack) = 0 /\ closePos = 1)
       \/ NextClose(code[lineIdx + 1], closePos) = 0
    /\ lineIdx' = lineIdx + 1
    /\ scanPc' = IF lineIdx + 1 >= Len(code) THEN "done" ELSE "open"
    /\ closePos' = 1
    /\ lastClose' = NoClose
    /\ UNCHANGED <<code, lockedStack, regions>>
    /\ UNCHANGED notScanVars

ScanNext == ScanOpenTags \/ ScanCloseTag \/ ScanNextLine

SpecRegions == ScanInit /\ [][ScanNext]_vars

\* the closing tag that properly closes the opening tag at (a, p): tags of
\* the same name opened in between are closed by their own closing tags
FlatTags(lines) ==
    Flatten([i \in 1..Len(lines) |->
                [p \in 1..Len(lines[i]) |-> [line |-> i, pos |-> p, tok |-> lines[i][p]]]])

RECURSIVE OwnCloseFrom(_, _, _, _)
OwnCloseFrom(flat, i, tag, depth) ==
    IF i > Len(flat) THEN 0
    ELSE IF flat[i].tok.k = "open" /\ flat[i].tok.tag = tag
         THEN OwnCloseFrom(flat, i + 1, tag, depth + 1)
    ELSE IF flat[i].tok.k = "close" /\ flat[i].tok.tag = tag
         THEN IF depth = 0 THEN flat[i].line ELSE OwnCloseFrom(flat, i + 1, tag, depth - 1)
    ELSE OwnCloseFrom(flat, i + 1, tag, depth)

\* line of the own closing tag of the opening tag that is entry i of the flat text
OwnCloseLine(flat, i) == OwnCloseFrom(flat, i + 1, flat[i].tok.tag, 0)

\* C4: a locked element is locked as a whole.  When the scan is done, every
\* opening tag with data-locked="true" that has its own closing tag has a
\* region from the line of the opening tag through the line of that closing
\* tag, also when tags of the same name are nested inside it.
C4_WholeSubtreeLocked ==
    scanPc = "done" =>
        LET flat == FlatTags(code)
        IN  \A i \in 1..Len(flat) :
                (flat[i].tok.k = "open" /\ IsLockedTag(flat[i].tok)
                    /\ OwnCloseLine(flat, i) # 0)
                => \E r \in 1..Len(regions) :
                      /\ regions[r].startLine = flat[i].line
                      /\ regions[r].endLine = OwnCloseLine(flat, i)

\* C5: closing-tag recovery of the locked-region scan.  A closing tag that
\* matches an entry below the top closes that entry and every entry above it;
\* a closing tag that matches no entry leaves the stack unchanged.
C5_ClosesIntervening ==
    lastClose.set =>
        LET j == StackMatch(lastClose.before, lastClose.tag)
        IN  IF j = 0 THEN lastClose.after = lastClose.before
            ELSE lastClose.after = SubSeq(lastClose.before, 1, j - 1)

-----------------------------------------------------------------------------
(* The locked-region hook (useLockedRegions): the editor model's content,  *)
(* the hook's refs and its pending timeouts.  Time is kept as the order in *)
(* which the pending timeouts expire: a timeout set later with a delay at  *)
(* least as long expires later; one with a shorter delay may expire before *)
(* or after those already pending.                                         *)

\* setTimeout delays of the hook
ResetDelayMs == 10
DecorDelayMs == 100
WarningMs == 2000

\* most content changes of one session
MaxChanges == 3

\* the texts the editor is mounted with
HookTexts ==
    {<< <<OpenTok("mj-text", Locked)>>, <<TextTok("x")>>, <<CloseTok("mj-text")>>,
        <<TextTok("x")>> >>,
     << <<TextTok("x")>>, <<SelfTok("mj-divider", Locked)>> >>}

Range(startLineNumber, startColumn, endLineNumber, endColumn) ==
    [startLineNumber |-> startLineNumber, startColumn |-> startColumn,
     endLineNumber |-> endLineNumber, endColumn |-> endColumn]

isRangeInLockedRegion_Exclusive(range, lockedRegions) ==
    \E r \in 1..Len(lockedRegions) :
        LET region == lockedRegions[r]
        IN  /\ \/ range.startLineNumber < region.endLine
               \/ /\ range.startLineNumber = region.endLine
                  /\ range.startColumn < region.endColumn
            /\ \/ range.endLineNumber > region.startLine
               \/ /\ range.endLineNumber = region.startLine
                  /\ range.endColumn > region.startColumn

isRangeInLockedRegion(range, lockedRegions) ==
    \E r \in 1..Len(lockedRegions) :
        LET region == lockedRegions[r]
            rangeStartsBeforeRegionEnds ==
                \/ range.startLineNumber < region.endLine
                \/ /\ range.startLineNumber = region.endLine
                   /\ range.startColumn <= region.endColumn
            rangeEndsAfterRegionStarts ==
                \/ range.endLineNumber > region.startLine
                \/ /\ range.endLineNumber = region.startLine
                   /\ range.endColumn >= region.startColumn
        IN  rangeStartsBeforeRegionEnds /\ rangeEndsAfterRegionStarts

\* one content change: typing at the start of a line, a new line before a
\* line, or the deletion of a line
Edits(text) ==
    {[kind |-> k, line |-> l] : k \in {"type", "newline"}, l \in 1..Len(text)}
    \cup {[kind |-> "delete", line |-> l] : l \in 1..(Len(text) - 1)}

\* change.range of the change event
ChangeRange(e) ==
    IF e.kind = "delete" THEN Range(e.line, 1, e.line + 1, 1)
    ELSE Range(e.line, 1, e.line, 1)

ApplyEdit(text, e) ==
    CASE e.kind = "type"    -> [text EXCEPT ![e.line] = <<TextTok("y")>> \o @]
      [] e.kind = "newline" -> InsertAt(text, e.line, <<TextTok("y")>>)
      [] OTHER              -> RemoveAt(text, e.line)

\* change.range of the change event of the undo of e
UndoRange(e) ==
    CASE e.kind = "type"    -> Range(e.line, 1, e.line, 2)
      [] e.kind = "newline" -> Range(e.line, 1, e.line + 1, 1)
      [] OTHER              -> Range(e.line, 1, e.line, 1)

SkipWhileUndoing_Never(flag) == FALSE

\* line 144: the handler returns at once while a revert is in progress
SkipWhileUndoing(flag) == flag

doesChangeAffectLockedRegions(changes, lockedRegions) ==
    IF Len(lockedRegions) = 0 THEN FALSE
    ELSE \E c \in 1..Len(changes) : isRangeInLockedRegion(changes[c], lockedRegions)

\* the undos one run of the onDidChangeContent listener triggers.  The undo
\* it triggers is a content change of its own and re-enters the listener
\* before editor.trigger returns, with the flag set; stack is the number of
\* edits the model can still undo.
RECURSIVE onDidChangeContent(_, _, _, _, _)
onDidChangeContent(undoing, range, undoRange, lockedRegions, stack) ==
    IF SkipWhileUndoing(undoing) THEN 0
    ELSE IF ~doesChangeAffectLockedRegions(<<range>>, lockedRegions) THEN 0
    ELSE IF stack = 0 THEN 0
    ELSE 1 + onDidChangeContent(TRUE, undoRange, range, lockedRegions, stack - 1)

Timer(kind, dur) == [kind |-> kind, dur |-> dur]

\* where a new timeout of this delay can come in the expiry order
TimerSlots(timers, dur) ==
    LET le == {i \in 1..Len(timers) : timers[i].dur <= dur}
        lo == IF le = {} THEN 1 ELSE 1 + (CHOOSE i \in le : \A h \in le : h <= i)
    IN  lo..(Len(timers) + 1)

showWarning_NoClear(timers) == Append(timers, Timer("warning", WarningMs))

\* showWarning: the pending warning timeout is cleared and a new one set; no
\* delay is longer, so it expires last
showWarning(timers) ==
    Append(SelectSeq(timers, LAMBDA t : t.kind # "warning"), Timer("warning", WarningMs))

HookInit ==
    /\ CompIdle /\ EditorIdle /\ ScanIdle /\ IdsIdle /\ CanvasIdle /\ SendIdle /\ KeysIdle /\ OverlapIdle /\ EditModeIdle
    /\ StoreIdle
    /\ modelValue \in HookTexts
    /\ editorMounted = FALSE
    /\ lockedRegionsRef = <<>>
    /\ previousContentRef = <<>>
    /\ isUndoingRef = FALSE
    /\ hookTimers = <<>>
    /\ lockedWarning = ""
    /\ changeCount = 0
    /\ lastChange = NoChange

\* setupLockedRegions up to the registration of the listeners
setupLockedRegions ==
    /\ ~editorMounted
    /\ editorMounted' = TRUE
    /\ lockedRegionsRef' = findLockedRegions(modelValue)
    /\ previousContentRef' = modelValue
    /\ UNCHANGED <<modelValue, isUndoingRef, hookTimers, lockedWarning, changeCount,
                   lastChange>>
    /\ UNCHANGED notHookVars

\* a content change of the model and the onDidChangeContent listener.  The
\* undo the listener triggers is itself a content change: it re-enters the
\* listener with the flag set and returns at line 144.
ContentChange(e) ==
    /\ editorMounted
    /\ changeCount < MaxChanges
    /\ changeCount' = changeCount + 1
    /\ LET range    == ChangeRange(e)
           affected == doesChangeAffectLockedRegions(<<range>>, lockedRegionsRef)
           skipped  == SkipWhileUndoing(isUndoingRef)
           reverted == ~skipped /\ affected
           warned   == showWarning(hookTimers)
       IN  /\ lastChange' = [set |-> TRUE,
                             inText |-> isRangeInLockedRegion(range,
                                            findLockedRegions(modelValue)),
                             inRef |-> affected,
                             undoing |-> isUndoingRef,
                             reverted |-> reverted,
                             undos |-> onDidChangeContent(isUndoingRef, range,
                                           UndoRange(e), lockedRegionsRef,
                                           changeCount + 1),
                             refCurrent |-> (lockedRegionsRef
                                                = findLockedRegions(modelValue)),
                             warnPending |-> (\E i \in 1..Len(hookTimers) :
                                                hookTimers[i].kind = "warning")]
           /\ modelValue' = IF reverted THEN modelValue ELSE ApplyEdit(modelValue, e)
           /\ isUndoingRef' = (isUndoingRef \/ reverted)
           /\ lockedWarning' = IF reverted THEN "Cannot edit locked region"
                               ELSE lockedWarning
           /\ IF skipped THEN hookTimers' = hookTimers
              ELSE IF reverted
              THEN \E p \in TimerSlots(warned, ResetDelayMs) :
                      /\ p <= Len(warned)
                      /\ hookTimers' = InsertAt(warned, p, Timer("reset", ResetDelayMs))
              ELSE \E p \in TimerSlots(hookTimers, DecorDelayMs) :
                      hookTimers' = InsertAt(hookTimers, p, Timer("decor", DecorDelayMs))
    /\ UNCHANGED <<editorMounted, lockedRegionsRef, previousContentRef>>
    /\ UNCHANGED notHookVars

\* lines 157-161: the flag is reset and the decorations updated
ResetTimerFire ==
    /\ hookTimers # <<>>
    /\ Head(hookTimers).kind = "reset"
    /\ hookTimers' = Tail(hookTimers)
    /\ isUndoingRef' = FALSE
    /\ lockedRegionsRef' = findLockedRegions(modelValue)
    /\ previousContentRef' = modelValue
    /\ UNCHANGED <<modelValue, editorMounted, lockedWarning, changeCount, lastChange>>
    /\ UNCHANGED notHookVars

\* line 167: the delayed updateDecorations
DecorTimerFire ==
    /\ hookTimers # <<>>
    /\ Head(hookTimers).kind = "decor"
    /\ hookTimers' = Tail(hookTimers)
    /\ lockedRegionsRef' = findLockedRegions(modelValue)
    /\ previousContentRef' = modelValue
    /\ UNCHANGED <<modelValue, editorMounted, isUndoingRef, lockedWarning, changeCount,
                   lastChange>>
    /\ UNCHANGED notHookVars

\* lines 53-56: the warning is cleared
WarningTimerFire ==
    /\ hookTimers # <<>>
    /\ Head(hookTimers).kind = "warning"
    /\ hookTimers' = Tail(hookTimers)
    /\ lockedWarning' = ""
    /\ UNCHANGED <<modelValue, editorMounted, lockedRegionsRef, previousContentRef,
                   isUndoingRef, changeCount, lastChange>>
    /\ UNCHANGED notHookVars

ChangeContent == \E e \in Edits(modelValue) : ContentChange(e)

HookNext ==
    \/ setupLockedRegions
    \/ ChangeContent
    \/ ResetTimerFire
    \/ DecorTimerFire
    \/ WarningTimerFire

SpecHook == HookInit /\ [][HookNext]_vars

\* the browser runs every timeout that is due
SpecHookLive ==
    /\ SpecHook
    /\ WF_vars(ResetTimerFire)
    /\ WF_vars(DecorTimerFire)
    /\ WF_vars(WarningTimerFire)

\* C3: the hook prevents all editing in locked regions.  Every content change
\* whose range overlaps a locked region (of the text, and as the hook last
\* computed the regions) is reverted, also one that arrives while the revert
\* of an earlier change is still in progress.
C3_AllLockedEditsReverted ==
    (lastChange.set /\ lastChange.inText /\ lastChange.inRef) => lastChange.reverted

\* C16: a content change that overlaps a locked region while no revert is in
\* progress sets isUndoingRef, triggers exactly one undo (the undo's own
\* change event triggers none), leaves the content as it was and shows
\* "Cannot edit locked region"; the flag is eventually reset to false, and
\* the step that resets it recomputes the locked regions from the content.
C16_RevertOnceThenReset ==
    /\ [][(changeCount' # changeCount /\ ~isUndoingRef /\ lastChange'.inRef)
            => /\ isUndoingRef'
               /\ lastChange'.undos = 1
               /\ modelValue' = modelValue
               /\ lockedWarning' = "Cannot edit locked region"]_vars
    /\ [][(isUndoingRef /\ ~isUndoingRef')
            => lockedRegionsRef' = findLockedRegions(modelValue')]_vars
    /\ (isUndoingRef ~> ~isUndoingRef)

C16_Witness ==
    /\ lastChange.set
    /\ lastChange.reverted
    /\ ~lastChange.undoing
    /\ lastChange.undos = 1
    /\ ~isUndoingRef
    /\ lockedRegionsRef = findLockedRegions(modelValue)

\* C17: whenever a change is checked, lockedRegionsRef holds the regions of
\* the content immediately before the change, so that an edit inside a
\* locked element is detected also after a permitted edit has shifted the
\* element's lines and before the delayed updateDecorations has run.
C17_RegionsCurrentAtCheck ==
    (lastChange.set /\ ~lastChange.undoing)
        => /\ lastChange.refCurrent
           /\ lastChange.inText => lastChange.inRef

WarningTimers == {i \in 1..Len(hookTimers) : hookTimers[i].kind = "warning"}

\* C19: the warning is debounced: at most one clearing timeout is pending,
\* the warning is set exactly as long as the timeout of the most recent
\* showWarning is pending (the timeout of an earlier call never clears it),
\* and the warning eventually returns to null.
C19_WarningDebounced ==
    /\ [](Cardinality(WarningTimers) <= 1)
    /\ [](lockedWarning # "" <=> WarningTimers # {})
    /\ [][(lockedWarning # "" /\ lockedWarning' = "") => \A i \in 1..Len(hookTimers') : hookTimers'[i].kind # "warning"]_vars
    /\ (lockedWarning # "" ~> lockedWarning = "")

C19_Witness ==
    /\ lastChange.set
    /\ lastChange.reverted
    /\ lastChange.warnPending
    /\ Cardinality(WarningTimers) = 1
    /\ lockedWarning = "Cannot edit locked region"

-----------------------------------------------------------------------------
(* The source editor (CodeEditor): hand-edited markup, the debounced       *)
(* auto-sync, Apply Changes and Reset.                                      *)

\* the auto-sync debounce of CodeEditor
DebounceMs == 500

\* granularity of the model's clock
TickMs == 250

\* cap on the identifiers handed out in one run of the editor model
MaxId == 14

\* markup typed by hand in the source editor
ColumnSectionMarkup ==
    <<OpenTok("mj-column", {}), OpenTok("mj-section", {}), TextTok("x"),
      CloseTok("mj-section"), CloseTok("mj-column")>>

SectionHiMarkup ==
    <<OpenTok("mj-section", {}), OpenTok("mj-column", {}), OpenTok("mj-text", {}),
      TextTok("Hi"), CloseTok("mj-text"), CloseTok("mj-column"), CloseTok("mj-section")>>

BrokenMarkup == <<OpenTok("mj-body", {}), BadTok, CloseTok("mj-body")>>

\* a full document whose head block the user has filled in by hand
HeadEditedMarkup ==
    generateMjml(emptyDocument,
                 CHOOSE h \in HeadChoices : h.fonts # <<>>)

\* the texts the user may leave in the editor after a keystroke
EditorTexts ==
    {SectionHiMarkup, ColumnSectionMarkup, BrokenMarkup, <<>>, HeadEditedMarkup,
     <<OpenTok("mjml", {}), OpenTok("mj-body", {}), OpenTok("mj-section", {})>>}

\* const code = editedCode ?? generatedMjml
Code == IF editedCode.set THEN editedCode.text ELSE generateMjml(document, headSettings)

isDirty == editedCode.set

\* (mutant) the effect without its cleanup: earlier timers stay pending
autoSyncEffect_NoCleanup(timers, dirty, text) ==
    IF dirty THEN Append(timers, [code |-> text, remaining |-> DebounceMs]) ELSE timers

\* the auto-sync effect: the cleanup of the previous run clears its timer,
\* then a new 500 ms timer is set when the code is dirty
autoSyncEffect(timers, dirty, text) ==
    IF dirty THEN <<[code |-> text, remaining |-> DebounceMs]>> ELSE <<>>

\* (mutant) the callback hands whatever the parser left to setDocument
autoSyncApply_Partial(r, doc, err) ==
    [document |-> r.node, error |-> IF r.kind = "throw" THEN r.message ELSE err]

\* body of the auto-sync timer callback: what it leaves in the store and banner
autoSyncApply(r, doc, err) ==
    CASE r.kind = "node"  -> [document |-> r.node, error |-> ""]
      [] r.kind = "throw" -> [document |-> doc, error |-> r.message]
      [] OTHER            -> [document |-> doc, error |-> err]

\* body of handleSync (Apply Changes)
handleSyncApply(r, doc, err, edited) ==
    CASE r.kind = "node"  -> [document |-> r.node, error |-> "", editedCode |-> NoCode]
      [] r.kind = "throw" -> [document |-> doc, error |-> r.message, editedCode |-> edited]
      [] OTHER            -> [document |-> doc, editedCode |-> edited,
                              error |-> "Failed to parse MJML. Please check the syntax."]

Saturate(n, cap) == IF n > cap THEN cap ELSE n
Monus(n, d) == IF n > d THEN n - d ELSE 0

SyncRecord(op, r, text) ==
    [op |-> op, kind |-> r.kind, before |-> document, node |-> r.node, text |-> text,
     latest |-> Code, elapsed |-> sinceChange, keystrokes |-> keystrokes]

EditorInit ==
    /\ CompIdle /\ ScanIdle /\ HookIdle /\ IdsIdle /\ CanvasIdle /\ SendIdle /\ KeysIdle /\ OverlapIdle /\ EditModeIdle
    /\ document = emptyDocument
    /\ nextId = 4
    /\ headSettings \in HeadChoices
    /\ EditorIdle

\* Monaco onChange -> handleChange(value), then the effects of the new code
handleChange(value) ==
    /\ value # Code
    /\ editedCode' = [set |-> TRUE, text |-> value]
    /\ error' = ""
    /\ syncTimers' = autoSyncEffect(syncTimers, TRUE, value)
    /\ sinceChange' = 0
    /\ keystrokes' = Saturate(keystrokes + 1, 2)
    /\ lastSync' = NoSync
    /\ UNCHANGED storeVars
    /\ UNCHANGED notEditorVars

\* time passes; a due timer may fire late, never early
EditorTick ==
    /\ syncTimers # <<>> \/ sinceChange < DebounceMs
    /\ syncTimers' = [i \in 1..Len(syncTimers) |->
                        [syncTimers[i] EXCEPT !.remaining = Monus(@, TickMs)]]
    /\ sinceChange' = Saturate(sinceChange + TickMs, DebounceMs)
    /\ lastSync' = NoSync
    /\ UNCHANGED <<storeVars, editedCode, error, keystrokes>>
    /\ UNCHANGED notEditorVars

\* a pending auto-sync timeout expires
AutoSyncFire(i) ==
    /\ i \in 1..Len(syncTimers)
    /\ syncTimers[i].remaining = 0
    /\ nextId <= MaxId
    /\ LET r   == parseMjmlToNode(syncTimers[i].code, nextId)
           out == autoSyncApply(r, document, error)
       IN  /\ document' = out.document
           /\ error' = out.error
           /\ nextId' = r.next
           /\ lastSync' = SyncRecord("auto", r, syncTimers[i].code)
    /\ syncTimers' = RemoveAt(syncTimers, i)
    /\ keystrokes' = 0
    /\ UNCHANGED <<headSettings, editedCode, sinceChange>>
    /\ UNCHANGED notEditorVars

\* the Apply Changes button (shown while dirty)
handleSync ==
    /\ isDirty
    /\ nextId <= MaxId
    /\ LET r   == parseMjmlToNode(Code, nextId)
           out == handleSyncApply(r, document, error, editedCode)
       IN  /\ document' = out.document
           /\ error' = out.error
           /\ editedCode' = out.editedCode
           /\ nextId' = r.next
           /\ lastSync' = SyncRecord("apply", r, Code)
           /\ syncTimers' = IF out.editedCode.set THEN syncTimers
                            ELSE autoSyncEffect(syncTimers, FALSE, <<>>)
           /\ sinceChange' = IF out.editedCode.set THEN sinceChange ELSE 0
    /\ UNCHANGED <<headSettings, keystrokes>>
    /\ UNCHANGED notEditorVars

\* the Reset button (shown while dirty)
handleReset ==
    /\ isDirty
    /\ editedCode' = NoCode
    /\ error' = ""
    /\ syncTimers' = autoSyncEffect(syncTimers, FALSE, <<>>)
    /\ sinceChange' = 0
    /\ lastSync' = NoSync
    /\ UNCHANGED <<storeVars, keystrokes>>
    /\ UNCHANGED notEditorVars

EditorNext ==
    \/ \E value \in EditorTexts : handleChange(value)
    \/ EditorTick
    \/ \E i \in 1..Len(syncTimers) : AutoSyncFire(i)
    \/ handleSync
    \/ handleReset

SpecEditor == EditorInit /\ [][EditorNext]_vars

-----------------------------------------------------------------------------
(* Properties of the source editor *)

\* C1: a failed parse keeps the last good tree.  After an auto-sync expiry or
\* an Apply Changes click whose parse threw (or, for Apply Changes, returned
\* no tree) the store's document is the one from before the call and an error
\* message is set; the document changes only to the tree a successful
\* parseMjmlToNode call returned.
C1_FailedParseKeepsTree ==
    lastSync.op # "none" =>
        /\ (lastSync.kind = "throw" \/ (lastSync.op = "apply" /\ lastSync.kind = "null"))
              => (document = lastSync.before /\ error # "")
        /\ lastSync.kind # "node" => document = lastSync.before
        /\ lastSync.kind = "node" => document = lastSync.node

C1_Witness ==
    /\ lastSync.op = "auto" /\ lastSync.kind = "throw"
    /\ lastSync.text = BrokenMarkup
    /\ document # emptyDocument /\ document = lastSync.before
    /\ error = "ParseError"

\* C2: the auto-sync is debounced.  At most one auto-sync timer is pending, a
\* pending timer is for the current code, and when the auto-sync runs the
\* parser at least DebounceMs have passed since the code last changed and the
\* text it parses is the current code, not that of an earlier keystroke.
C2_Debounced ==
    /\ Len(syncTimers) <= 1
    /\ \A i \in 1..Len(syncTimers) : isDirty /\ syncTimers[i].code = Code
    /\ lastSync.op = "auto" =>
          /\ lastSync.elapsed >= DebounceMs
          /\ lastSync.text = lastSync.latest

C2_Witness ==
    /\ lastSync.op = "auto" /\ lastSync.kind = "node"
    /\ lastSync.keystrokes >= 2
    /\ lastSync.elapsed >= DebounceMs

\* the tokens of the head block of a markup text (between <mj-head> and
\* </mj-head>), empty when the text has none
HeadBlock(toks) ==
    LET opens  == {i \in 1..Len(toks) : toks[i].k = "open" /\ toks[i].tag = "mj-head"}
        closes == {i \in 1..Len(toks) : toks[i].k = "close" /\ toks[i].tag = "mj-head"}
    IN  IF opens = {} \/ closes = {} THEN <<>>
        ELSE SubSeq(toks, (CHOOSE i \in opens : \A j \in opens : i <= j) + 1,
                          (CHOOSE i \in closes : \A j \in closes : i <= j) - 1)

\* parseMjml(text).headSettings: the head settings a head block stands for
parseHead(toks) ==
    LET hb     == HeadBlock(toks)
        fonts  == SelectSeq(hb, LAMBDA t : t.k = "self" /\ t.tag = "mj-font")
        bps    == SelectSeq(hb, LAMBDA t : t.k = "self" /\ t.tag = "mj-breakpoint")
        others == SelectSeq(hb, LAMBDA t : t.k = "self"
                                  /\ t.tag \notin {"mj-font", "mj-breakpoint"})
    IN  [fonts |-> [i \in 1..Len(fonts) |->
                        (CHOOSE a \in fonts[i].attrs : a[1] = "name")[2]],
         breakpoint |-> IF bps = <<>> THEN ""
                        ELSE (CHOOSE a \in bps[1].attrs : a[1] = "width")[2],
         attributes |-> [i \in 1..Len(others) |->
                            [tag |-> others[i].tag, attrs |-> others[i].attrs]]]

\* C11: the head block of applied markup is merged back into the store.
\* After an auto-sync or an Apply Changes call that parsed markup carrying a
\* head block, the store's head settings are those of that head block, and
\* no element of the head block has become a node of the body tree.
C11_HeadMergedBack ==
    (lastSync.op # "none" /\ lastSync.kind = "node" /\ HeadBlock(lastSync.text) # <<>>)
        => /\ headSettings = parseHead(lastSync.text)
           /\ \A n \in AllNodes(document) :
                 n.type \notin {"mj-head", "mj-font", "mj-breakpoint", "mj-attributes"}

-----------------------------------------------------------------------------
(* The compiler loop: build a document from schema defaults, serialize it, *)
(* possibly damage or hand-type the markup, parse it back.                 *)

\* most nodes a built document may hold
MaxNodes == 5

\* most nodes of a document whose generated markup is edited by hand
MaxTypedNodes == 4

\* attribute overrides a caller passes to createNode
OverridesFor(type) ==
    CASE type = "mj-text"    -> {{}, {<<"align", "center">>}, {<<"font-size", "20px">>}}
      [] type = "mj-section" -> {{}, {<<"padding", "0">>}}
      [] OTHER               -> {{}}

\* the component kinds the bounded model builds trees from
BuildTypes == {"mj-section", "mj-column", "mj-text", "mj-divider", "mj-social", "mj-raw"}

HandTyped ==
    {ColumnSectionMarkup, SectionHiMarkup, <<>>, <<TextTok("x")>>,
     <<OpenTok("mj-body", {}), OpenTok("foo", {}), TextTok("x"), CloseTok("foo"),
       CloseTok("mj-bodi")>>,
     BrokenMarkup}

\* tokens a single keystroke edit may add to generated markup
TypedTokens ==
    {OpenTok("mj-section", {}), OpenTok("mj-column", {}), CloseTok("mj-column"),
     CloseTok("mj-section"), OpenTok("foo", {}), TextTok("x"), SelfTok("mj-divider", {}),
     OpenTok("mj-text", {<<"align", "right">>})}


\* the opening tag a closing tag of generated markup belongs to
MatchOpen(toks, c) ==
    CHOOSE q \in 1..(c - 1) :
        /\ toks[q].k = "open" /\ toks[q].tag = toks[c].tag
        /\ \A r \in (q + 1)..(c - 1) : ~(toks[r].k = "open" /\ toks[r].tag = toks[c].tag)

CompInit ==
    /\ EditorIdle /\ ScanIdle /\ HookIdle /\ IdsIdle /\ CanvasIdle /\ SendIdle /\ KeysIdle /\ OverlapIdle /\ EditModeIdle
    /\ document = createNode("mj-body", {}, 1)
    /\ nextId = 2
    /\ markup = <<>>
    /\ unclosedAt = 0
    /\ headSettings = NoHead
    /\ markupOf = "none"
    /\ parsed = NoResult
    /\ compPc = "build"

\* programmatic construction: createNode + insertion under an allowed parent
CompAddNode(pid, type, overrides) ==
    LET child == createNode(type, overrides, nextId)
    IN  /\ compPc = "build"
        /\ \E p \in AllNodes(document) : p.id = pid /\ canContain(p.type, type)
        /\ NodeCount(document) + NodeCount(child) <= MaxNodes
        /\ document' = AddChildTo(document, pid, child)
        /\ nextId' = nextId + NodeCount(child)
        /\ UNCHANGED <<markup, unclosedAt, headSettings, markupOf, parsed, compPc>>
        /\ UNCHANGED notCompVars

CompGenerate(h) ==
    /\ compPc = "build"
    /\ headSettings' = h
    /\ markup' = generateMjml(document, h)
    /\ markupOf' = "generated"
    /\ unclosedAt' = 0
    /\ compPc' = "text"
    /\ UNCHANGED <<document, nextId, parsed>>
    /\ UNCHANGED notCompVars

\* one closing tag of the generated markup is deleted
CompDropClose(c) ==
    /\ compPc = "text" /\ markupOf = "generated"
    /\ c \in 1..Len(markup) /\ markup[c].k = "close"
    /\ markup' = RemoveAt(markup, c)
    /\ unclosedAt' = MatchOpen(markup, c)
    /\ markupOf' = "unclosed"
    /\ UNCHANGED <<document, nextId, headSettings, parsed, compPc>>
    /\ UNCHANGED notCompVars

\* one token is typed into the generated markup
CompTypeToken(i, tok) ==
    /\ compPc = "text" /\ markupOf = "generated"
    /\ NodeCount(document) <= MaxTypedNodes
    /\ i \in 1..(Len(markup) + 1)
    /\ markup' = InsertAt(markup, i, tok)
    /\ markupOf' = "typed"
    /\ UNCHANGED <<document, nextId, unclosedAt, headSettings, parsed, compPc>>
    /\ UNCHANGED notCompVars

\* a whole fragment is typed by hand
CompTypeMarkup(text) ==
    /\ compPc = "build" /\ NodeCount(document) = 1
    /\ markup' = text
    /\ markupOf' = "typed"
    /\ unclosedAt' = 0
    /\ compPc' = "text"
    /\ UNCHANGED <<document, nextId, headSettings, parsed>>
    /\ UNCHANGED notCompVars

CompParse ==
    /\ compPc = "text"
    /\ parsed' = parseMjmlToNode(markup, nextId)
    /\ nextId' = parsed'.next
    /\ compPc' = "parsed"
    /\ UNCHANGED <<document, markup, unclosedAt, headSettings, markupOf>>
    /\ UNCHANGED notCompVars

CompNext ==
    \/ \E p \in 1..MaxNodes, t \in BuildTypes : \E o \in OverridesFor(t) : CompAddNode(p, t, o)
    \/ \E h \in HeadChoices : CompGenerate(h)
    \/ \E c \in 1..Len(markup) : CompDropClose(c)
    \/ \E i \in 1..(Len(markup) + 1), tok \in TypedTokens : CompTypeToken(i, tok)
    \/ \E text \in HandTyped : CompTypeMarkup(text)
    \/ CompParse

SpecCompiler == CompInit /\ [][CompNext]_vars


-----------------------------------------------------------------------------
(* Properties of the compiler loop *)

\* every node below n sits under a parent that may contain it, or is raw
RECURSIVE ContainmentOK(_)
ContainmentOK(n) ==
    \A i \in 1..Len(n.children) :
        /\ canContain(n.type, n.children[i].type) \/ n.children[i].type = "mj-raw"
        /\ ContainmentOK(n.children[i])

\* the nodes in document order, each with its depth
RECURSIVE PreorderView(_, _)
PreorderView(n, depth) ==
    <<[depth |-> depth, type |-> n.type, props |-> n.props, content |-> n.content]>>
        \o Flatten([i \in 1..Len(n.children) |-> PreorderView(n.children[i], depth + 1)])

Shape(e) == [depth |-> e.depth, type |-> e.type, props |-> e.props]

\* number of component tags of the body that start before token q
StartsBefore(toks, q) ==
    Cardinality({i \in 1..(q - 1) :
        /\ toks[i].k \in {"open", "self"} /\ toks[i].tag \in ComponentTypes
        /\ \E b \in 1..i : toks[b].k = "open" /\ toks[b].tag = "mj-body"})

\* C6: round-trip law.  For a document T built from schema-default constructions
\* and any head settings H, parseMjmlToNode(generateMjml(T, H)) returns a
\* document equal to T up to node identifiers.
C6_RoundTrip ==
    (compPc = "parsed" /\ markupOf = "generated") =>
        /\ parsed.kind = "node"
        /\ Strip(parsed.node) = Strip(document)

C6_Witness ==
    /\ compPc = "parsed" /\ markupOf = "generated"
    /\ headSettings.fonts # <<>>
    /\ NodeCount(document) >= 5
    /\ \E n \in AllNodes(document) : n.type = "mj-text" /\ <<"align", "center">> \in n.props
    /\ \E n \in AllNodes(document) : n.type = "mj-divider"

\* C7: containment invariant of parsed trees.  Every node of a document the
\* parser returns, for generated, damaged or hand-typed markup, is an
\* allowed child of its parent or a raw passthrough node; tokenizable input
\* never makes the parse fail; an mj-section inside an mj-column does not
\* stay a section child of the column.
C7_Containment ==
    compPc = "parsed" =>
        /\ (parsed.kind = "throw") <=> (\E i \in 1..Len(markup) : markup[i].k = "bad")
        /\ parsed.kind = "node" => ContainmentOK(parsed.node)
        /\ markup = ColumnSectionMarkup =>
              /\ parsed.kind = "node" /\ parsed.node.type = "mj-column"
              /\ \A i \in 1..Len(parsed.node.children) :
                    parsed.node.children[i].type # "mj-section"

C7_Witness ==
    /\ compPc = "parsed" /\ markup = ColumnSectionMarkup
    /\ parsed.kind = "node"
    /\ Len(parsed.node.children) = 1
    /\ parsed.node.children[1].type = "mj-raw"
    /\ parsed.node.children[1].content =
          <<OpenTok("mj-section", {}), TextTok("x"), CloseTok("mj-section")>>

\* C10: parser tolerance.  Markup with exactly one unclosed tag parses to a
\* document, and the nodes that start before the unclosed tag are those of the
\* document parsed from the markup with the tag closed: same types, attributes,
\* depths and order, and the same content for every node closed before it.
C10_Tolerance ==
    (compPc = "parsed" /\ markupOf = "unclosed") =>
        LET full   == generateMjml(document, headSettings)
            ref    == PreorderView(parseMjmlToNode(full, 1).node, 0)
            got    == PreorderView(parsed.node, 0)
            m      == StartsBefore(full, unclosedAt)
            inside == full[unclosedAt].tag \notin ComponentTypes
            whole  == IF inside /\ m > 0 THEN m - 1 ELSE m
        IN  /\ parsed.kind = "node"
            /\ Len(got) >= m /\ Len(ref) >= m
            /\ SubSeq(got, 1, whole) = SubSeq(ref, 1, whole)
            /\ \A i \in 1..m : Shape(got[i]) = Shape(ref[i])

C10_Witness ==
    /\ compPc = "parsed" /\ markupOf = "unclosed"
    /\ markup[unclosedAt].tag = "mj-column"
    /\ StartsBefore(generateMjml(document, headSettings), unclosedAt) >= 3
    /\ parsed.kind = "node"
    /\ Strip(parsed.node) # Strip(document)

-----------------------------------------------------------------------------
(* Identifiers: generateId, template cloning and the social block editor   *)
(* (EditableSocial) adding and removing social elements.                   *)

\* most social elements in the block, most clones, and the last id handed out
MaxSocial == 2
MaxClones == 2
MaxFreshId == 18

\* the platforms the popover offers
socialPlatforms == {"facebook", "github"}

\* (mutant) the root keeps its identifier
RECURSIVE cloneDocumentWithNewIds_KeepRoot(_, _)
cloneDocumentWithNewIds_KeepRoot(root, firstId) ==
    LET kids == [i \in 1..Len(root.children) |->
                    cloneDocumentWithNewIds_KeepRoot(root.children[i],
                        firstId + 1
                        + SumSeq([j \in 1..(i - 1) |-> NodeCount(root.children[j])]))]
    IN  [root EXCEPT !.children = kids]

\* cloneDocumentWithNewIds(root): a deep copy whose nodes take fresh
\* identifiers, firstId onward in document order
RECURSIVE cloneDocumentWithNewIds(_, _)
cloneDocumentWithNewIds(root, firstId) ==
    LET kids == [i \in 1..Len(root.children) |->
                    cloneDocumentWithNewIds(root.children[i],
                        firstId + 1
                        + SumSeq([j \in 1..(i - 1) |-> NodeCount(root.children[j])]))]
    IN  [root EXCEPT !.id = firstId, !.children = kids]

\* the store's removeNode: the node with this id leaves its parent
RECURSIVE RemoveNodeFrom(_, _)
RemoveNodeFrom(n, id) ==
    LET kept == SelectSeq(n.children, LAMBDA c : c.id # id)
    IN  [n EXCEPT !.children = [i \in 1..Len(kept) |-> RemoveNodeFrom(kept[i], id)]]

\* the social blocks of the document
SocialNodes(root) == {n \in AllNodes(root) : n.type = "mj-social"}

\* (mutant) the new element is numbered after its position in the block
handleAddSocial_ByPosition(root, node, platformName, freshId) ==
    AddChildTo(root, node.id,
               MkNode(node.id + Len(node.children) + 1, "mj-social-element",
                      {<<"name", platformName>>, <<"href", "#">>}, <<>>, <<>>))

\* handleAddSocial(platformName) of the block showing node; freshId is what
\* generateId() returns
handleAddSocial(root, node, platformName, freshId) ==
    AddChildTo(root, node.id,
               MkNode(freshId, "mj-social-element",
                      {<<"name", platformName>>, <<"href", "#">>}, <<>>, <<>>))

\* a document with one social block in its column
socialDocument == AddChildTo(emptyDocument, 3, createNode("mj-social", {}, 4))

IdsInit ==
    /\ CompIdle /\ EditorIdle /\ ScanIdle /\ HookIdle /\ CanvasIdle /\ SendIdle /\ KeysIdle /\ OverlapIdle /\ EditModeIdle
    /\ document = socialDocument
    /\ nextId = 4 + NodeCount(createNode("mj-social", {}, 4))
    /\ headSettings = NoHead
    /\ clones = <<>>
    /\ everIds = SeqToSet(NodeIds(socialDocument))
    /\ lastAdd = NoAdd

\* the element handleAddSocial has just put into the block
NewestChild(root, pid) ==
    LET p == CHOOSE n \in AllNodes(root) : n.id = pid
    IN  p.children[Len(p.children)]

AddSocial(node, platformName) ==
    /\ nextId <= MaxFreshId
    /\ Len(node.children) < MaxSocial
    /\ document' = handleAddSocial(document, node, platformName, nextId)
    /\ nextId' = nextId + 1
    /\ everIds' = everIds \cup SeqToSet(NodeIds(document'))
    /\ lastAdd' = [set |-> TRUE, id |-> NewestChild(document', node.id).id,
                   ever |-> everIds]
    /\ UNCHANGED clones
    /\ UNCHANGED notIdVars

\* the trash button of one social element
RemoveSocial(child) ==
    /\ document' = RemoveNodeFrom(document, child.id)
    /\ lastAdd' = NoAdd
    /\ UNCHANGED <<nextId, clones, everIds>>
    /\ UNCHANGED notIdVars

\* a template (here: the document as it stands) is instantiated
CloneDocument ==
    /\ Len(clones) < MaxClones
    /\ nextId + NodeCount(document) - 1 <= MaxFreshId
    /\ clones' = Append(clones, [source |-> document,
                                 tree |-> cloneDocumentWithNewIds(document, nextId)])
    /\ nextId' = nextId + NodeCount(document)
    /\ UNCHANGED <<document, everIds, lastAdd>>
    /\ UNCHANGED notIdVars

AddSocialElement ==
    \E node \in SocialNodes(document), platformName \in socialPlatforms :
        AddSocial(node, platformName)

RemoveSocialElement ==
    \E node \in SocialNodes(document) :
        \E i \in 1..Len(node.children) : RemoveSocial(node.children[i])

IdsNext == AddSocialElement \/ RemoveSocialElement \/ CloneDocument

SpecIds == IdsInit /\ [][IdsNext]_vars

\* the identifiers of the source trees, the clones and the document, as one list
AllTreeIds ==
    NodeIds(document)
    \o Flatten([i \in 1..Len(clones) |-> NodeIds(clones[i].tree)])

Distinct(seq) == \A i, j \in 1..Len(seq) : i # j => seq[i] # seq[j]

\* C8: identifier uniqueness of clones.  No two nodes of the clones made so
\* far share an id, no clone shares an id with its source or with the
\* document, and every clone equals its source in types, attributes, content
\* and child order.
C8_ClonesFresh ==
    /\ Distinct(AllTreeIds)
    /\ \A i \in 1..Len(clones) :
          /\ Strip(clones[i].tree) = Strip(clones[i].source)
          /\ SeqToSet(NodeIds(clones[i].tree)) \cap SeqToSet(NodeIds(clones[i].source)) = {}

C8_Witness ==
    /\ Len(clones) = 2
    /\ clones[1].source = clones[2].source
    /\ NodeCount(clones[1].tree) >= 6

\* C9: node ids stay unique within the document under handleAddSocial and
\* removeNode, and the id of an added element was never in the document
\* before.
C9_IdsUnique ==
    /\ Distinct(NodeIds(document))
    /\ lastAdd.set => lastAdd.id \notin lastAdd.ever

C9_Witness ==
    /\ lastAdd.set
    /\ everIds \ SeqToSet(NodeIds(document)) # {}
    /\ \E node \in SocialNodes(document) : Len(node.children) = MaxSocial

-----------------------------------------------------------------------------
(* Canvas drag and drop: Editor.handleDragStart / handleDragEnd hand the   *)
(* drop to the store's addNode / moveNode.                                 *)

\* most nodes of the canvas document and the last id handed out
MaxCanvasNodes == 5
MaxCanvasId == 7

\* the component kinds the sidebar offers
SidebarTypes == {"mj-section", "mj-column", "mj-text", "mj-divider"}

\* overData.index when the drop target carries none
NoIndex == 0 - 1

NodeById(root, id) == CHOOSE n \in AllNodes(root) : n.id = id

\* the child is put at position index (0-based), or last when there is none
RECURSIVE InsertChildAt(_, _, _, _)
InsertChildAt(n, pid, child, index) ==
    IF n.id = pid
    THEN [n EXCEPT !.children =
            IF index = NoIndex \/ index >= Len(n.children) THEN Append(n.children, child)
            ELSE InsertAt(n.children, index + 1, child)]
    ELSE [n EXCEPT !.children =
            [i \in 1..Len(n.children) |-> InsertChildAt(n.children[i], pid, child, index)]]

\* (mutant) the store inserts whatever it is handed
addNode_Unchecked(root, targetId, componentType, index, freshId) ==
    InsertChildAt(root, targetId, createNode(componentType, {}, freshId), index)

\* the store's addNode: an insert the schema does not allow is rejected
addNode(root, targetId, componentType, index, freshId) ==
    IF canContain(NodeById(root, targetId).type, componentType)
    THEN InsertChildAt(root, targetId, createNode(componentType, {}, freshId), index)
    ELSE root

\* the store's moveNode: the node leaves its parent and is inserted under the
\* target; a move the schema does not allow, or into the node's own subtree,
\* is rejected
moveNode(root, nodeId, targetId, index) ==
    LET node   == NodeById(root, nodeId)
        target == NodeById(root, targetId)
    IN  IF canContain(target.type, node.type) /\ target \notin AllNodes(node)
        THEN InsertChildAt(RemoveNodeFrom(root, nodeId), targetId, node, index)
        ELSE root

\* what a drag can start from: a sidebar item or a node of the canvas
DragSources ==
    {[type |-> "new-component", componentType |-> t, nodeId |-> 0] : t \in SidebarTypes}
    \cup {[type |-> "existing-node", componentType |-> "", nodeId |-> n.id] :
            n \in AllNodes(document) \ {document}}

\* what a drag can end over: a node's container or drop zone, with or
\* without an index
DropTargets ==
    UNION {{[nodeId |-> n.id, index |-> i] : i \in {NoIndex} \cup 0..Len(n.children)} :
              n \in AllNodes(document)}

CanvasInit ==
    /\ CompIdle /\ EditorIdle /\ ScanIdle /\ HookIdle /\ IdsIdle /\ SendIdle /\ KeysIdle /\ OverlapIdle /\ EditModeIdle
    /\ StoreIdle
    /\ dragActive = NoDrag
    /\ lastDrop = NoDrop

handleDragStart(active) ==
    /\ dragActive = NoDrag
    /\ dragActive' = active
    /\ UNCHANGED <<document, nextId, lastDrop>>
    /\ UNCHANGED notCanvasVars

\* handleDragEnd with a drop target under the pointer
handleDragEnd(over) ==
    /\ dragActive # NoDrag
    /\ dragActive' = NoDrag
    /\ IF dragActive.type = "new-component"
       THEN /\ NodeCount(document) < MaxCanvasNodes
            /\ nextId <= MaxCanvasId
            /\ document' = addNode(document, over.nodeId, dragActive.componentType,
                                   over.index, nextId)
            /\ nextId' = nextId + 1
       ELSE /\ document' =
                 IF dragActive.nodeId # over.nodeId
                 THEN moveNode(document, dragActive.nodeId, over.nodeId,
                               IF over.index = NoIndex THEN 0 ELSE over.index)
                 ELSE document
            /\ nextId' = nextId
    /\ lastDrop' = [set |-> TRUE, type |-> dragActive.type,
                    accepted |-> document' # document]
    /\ UNCHANGED notCanvasVars

\* handleDragEnd without a target (line 562) and handleDragCancel
handleDragCancel ==
    /\ dragActive # NoDrag
    /\ dragActive' = NoDrag
    /\ UNCHANGED <<document, nextId, lastDrop>>
    /\ UNCHANGED notCanvasVars

DragStart == \E active \in DragSources : handleDragStart(active)
DragEnd == \E over \in DropTargets : handleDragEnd(over)

CanvasNext == DragStart \/ DragEnd \/ handleDragCancel

SpecCanvas == CanvasInit /\ [][CanvasNext]_vars

\* every node below n sits under a parent whose schema entry allows it
RECURSIVE SchemaOK(_)
SchemaOK(n) ==
    \A i \in 1..Len(n.children) :
        /\ canContain(n.type, n.children[i].type)
        /\ SchemaOK(n.children[i])

\* C12: containment after canvas drops.  After any sequence of drops of new
\* components and moves of existing nodes the root is the body, a section
\* holds only columns and a column only types of columnAcceptTypes.
C12_DropsKeepContainment ==
    /\ document.type = "mj-body"
    /\ SchemaOK(document)
    /\ \A n \in AllNodes(document) :
          /\ n.type = "mj-section" =>
                \A i \in 1..Len(n.children) : n.children[i].type = "mj-column"
          /\ n.type = "mj-column" =>
                \A i \in 1..Len(n.children) : n.children[i].type \in columnAcceptTypes

C12_Witness ==
    /\ lastDrop.set /\ lastDrop.type = "existing-node" /\ lastDrop.accepted
    /\ NodeCount(document) = MaxCanvasNodes
    /\ \E n \in AllNodes(document) : n.type = "mj-column" /\ Len(n.children) >= 1

-----------------------------------------------------------------------------
(* The send-email route.  A string field of the request body is absent,    *)
(* empty or filled; the handler is cut at its awaits: request.json(),      *)
(* createTestAccount(), resend.emails.send() and transporter.sendMail().   *)

FieldValues == {Undefined, "", "v"}
Modes == {"test", "resend", "smtp", Undefined}

\* a value that passes a JavaScript truthiness test
Truthy(v) == v \notin {Undefined, ""}

\* the request bodies: text that is not JSON, the JSON value null, an object
SendRequests ==
    {NoBody("malformed"), NoBody("null")}
    \cup [body : {"object"}, mode : Modes, resendApiKey : FieldValues,
          smtp : [host : FieldValues, user : FieldValues, pass : FieldValues],
          email : [from : FieldValues, to : FieldValues, subject : FieldValues,
                   html : FieldValues]]

\* what an awaited call can do: resolve, resolve with an error field (Resend
\* only), reject with an Error, reject with something that is no Error
Thrown == {[kind |-> "threw", isError |-> TRUE, message |-> "boom"],
           [kind |-> "threw", isError |-> FALSE, message |-> ""]}
Accepted == [kind |-> "accepted", isError |-> FALSE, message |-> ""]
Reported == [kind |-> "reported", isError |-> TRUE, message |-> "rejected by Resend"]
JsonSyntaxError == [kind |-> "threw", isError |-> TRUE, message |-> "Unexpected token"]
NullTypeError == [kind |-> "threw", isError |-> TRUE, message |-> "Cannot read properties of null"]

Response(status, success, err) == [status |-> status, success |-> success, error |-> err]

contentMissing_ToOnly(body) == ~Truthy(body.email.to)

\* !body.email?.to || !body.email?.subject || !body.email?.html
contentMissing(body) ==
    \/ ~Truthy(body.email.to)
    \/ ~Truthy(body.email.subject)
    \/ ~Truthy(body.email.html)

\* !body.smtp?.host || !body.smtp?.auth?.user || !body.smtp?.auth?.pass
smtpConfigMissing(body) ==
    \/ ~Truthy(body.smtp.host)
    \/ ~Truthy(body.smtp.user)
    \/ ~Truthy(body.smtp.pass)

validate_ContentOnly(body) ==
    IF contentMissing(body) THEN "Missing email content (to, subject, html)" ELSE ""

\* the checks of POST in the order it makes them: the error of the first
\* check that fails, "" when the request goes on to a transport
validate(body) ==
    IF contentMissing(body) THEN "Missing email content (to, subject, html)"
    ELSE IF body.mode = "resend"
        THEN (IF ~Truthy(body.resendApiKey) THEN "Missing Resend API Key" ELSE "")
    ELSE IF body.mode = "test" THEN ""
    ELSE IF smtpConfigMissing(body) THEN "Missing SMTP configuration"
    ELSE IF ~Truthy(body.email.from) THEN "Missing sender email address"
    ELSE ""

\* the catch block
catchResponse(thrown) ==
    Response(500, FALSE, IF thrown.isError THEN thrown.message ELSE "Failed to send email")

resendResponse_IgnoreError(result) == Response(200, TRUE, "")

\* what POST returns once resend.emails.send has resolved
resendResponse(result) ==
    IF result.kind = "reported" THEN Response(400, FALSE, result.message)
    ELSE Response(200, TRUE, "")

Respond(r) ==
    /\ responses' = Append(responses, r)
    /\ sendPc' = "done"

SendInit ==
    /\ CompIdle /\ EditorIdle /\ ScanIdle /\ HookIdle /\ IdsIdle /\ CanvasIdle /\ KeysIdle /\ OverlapIdle /\ EditModeIdle
    /\ StoreIdle
    /\ SendIdle

\* a request arrives: POST starts and awaits request.json()
Receive(req) ==
    /\ sendPc = "idle"
    /\ sendRequest' = req
    /\ sendPc' = "json"
    /\ responses' = <<>>
    /\ sendAttempts' = 0
    /\ transport' = "none"
    /\ sendOutcome' = NoOutcome
    /\ UNCHANGED notSendVars

\* request.json() settles; POST runs on to its next await or to its return
HandleBody ==
    /\ sendPc = "json"
    /\ IF sendRequest.body = "malformed"
       THEN /\ sendOutcome' = JsonSyntaxError
            /\ Respond(catchResponse(JsonSyntaxError))
            /\ UNCHANGED <<sendAttempts, transport>>
       ELSE IF sendRequest.body = "null"
       THEN /\ sendOutcome' = NullTypeError
            /\ Respond(catchResponse(NullTypeError))
            /\ UNCHANGED <<sendAttempts, transport>>
       ELSE IF validate(sendRequest) # ""
       THEN /\ Respond(Response(400, FALSE, validate(sendRequest)))
            /\ UNCHANGED <<sendAttempts, transport, sendOutcome>>
       ELSE IF sendRequest.mode = "resend"
       THEN /\ transport' = "resend"
            /\ sendAttempts' = sendAttempts + 1
            /\ sendPc' = "resend"
            /\ UNCHANGED <<responses, sendOutcome>>
       ELSE IF sendRequest.mode = "test"
       THEN /\ sendPc' = "account"
            /\ UNCHANGED <<responses, sendAttempts, transport, sendOutcome>>
       ELSE /\ transport' = "smtp"
            /\ sendAttempts' = sendAttempts + 1
            /\ sendPc' = "sendMail"
            /\ UNCHANGED <<responses, sendOutcome>>
    /\ UNCHANGED sendRequest
    /\ UNCHANGED notSendVars

\* resend.emails.send settles
ResendSettles(result) ==
    /\ sendPc = "resend"
    /\ sendOutcome' = result
    /\ IF result.kind = "threw"
       THEN Respond(catchResponse(result))
       ELSE Respond(resendResponse(result))
    /\ UNCHANGED <<sendRequest, sendAttempts, transport>>
    /\ UNCHANGED notSendVars

\* nodemailer.createTestAccount settles; on success the Ethereal transport
\* is created and sendMail is called
AccountSettles(result) ==
    /\ sendPc = "account"
    /\ IF result.kind = "threw"
       THEN /\ sendOutcome' = result
            /\ Respond(catchResponse(result))
            /\ UNCHANGED <<sendAttempts, transport>>
       ELSE /\ transport' = "ethereal"
            /\ sendAttempts' = sendAttempts + 1
            /\ sendPc' = "sendMail"
            /\ UNCHANGED <<responses, sendOutcome>>
    /\ UNCHANGED sendRequest
    /\ UNCHANGED notSendVars

\* transporter.sendMail settles
SendMailSettles(result) ==
    /\ sendPc = "sendMail"
    /\ sendOutcome' = result
    /\ IF result.kind = "threw"
       THEN Respond(catchResponse(result))
       ELSE Respond(Response(200, TRUE, ""))
    /\ UNCHANGED <<sendRequest, sendAttempts, transport>>
    /\ UNCHANGED notSendVars

\* the response has gone out and the handler's frame is gone
Return ==
    /\ sendPc = "done"
    /\ sendRequest' = NoRequest
    /\ sendPc' = "idle"
    /\ responses' = <<>>
    /\ sendAttempts' = 0
    /\ transport' = "none"
    /\ sendOutcome' = NoOutcome
    /\ UNCHANGED notSendVars

POST == sendPc = "idle" /\ \E req \in SendRequests : Receive(req)

ResendDone == \E result \in {Accepted, Reported} \cup Thrown : ResendSettles(result)

AccountDone == \E result \in {Accepted} \cup Thrown : AccountSettles(result)

SendMailDone == \E result \in {Accepted} \cup Thrown : SendMailSettles(result)

SendNext == POST \/ HandleBody \/ ResendDone \/ AccountDone \/ SendMailDone \/ Return

SpecSend == SendInit /\ [][SendNext]_vars

\* C13: in every mode, a request whose email lacks a non-empty to, subject
\* or html is answered with status 400 and the error "Missing email content
\* (to, subject, html)"; no transport is created and nothing is sent for it.
C13_MissingContentRejected ==
    (/\ sendRequest.body = "object"
     /\ sendPc \notin {"idle", "json"}
     /\ \E f \in {"to", "subject", "html"} : sendRequest.email[f] \in {Undefined, ""})
        => /\ sendPc = "done"
           /\ responses = <<[status |-> 400, success |-> FALSE,
                             error |-> "Missing email content (to, subject, html)"]>>
           /\ transport = "none"
           /\ sendAttempts = 0

C13_Witness ==
    /\ sendPc = "done"
    /\ sendRequest.body = "object"
    /\ sendRequest.mode = "test"
    /\ sendRequest.email.to = "v"
    /\ sendRequest.email.subject = "v"
    /\ sendRequest.email.html = ""
    /\ Len(responses) = 1

HasContent(req) ==
    /\ req.body = "object"
    /\ \A f \in {"to", "subject", "html"} : req.email[f] \notin {Undefined, ""}

Rejected400(err) ==
    /\ sendPc = "done"
    /\ responses = <<[status |-> 400, success |-> FALSE, error |-> err]>>
    /\ transport = "none"
    /\ sendAttempts = 0

\* C14: a request with complete content is checked for its mode before
\* anything is sent: mode resend without an API key is answered 400 "Missing
\* Resend API Key"; custom SMTP without host, user or password 400 "Missing
\* SMTP configuration", and with those but without a sender 400 "Missing
\* sender email address"; in each case no message is sent.
C14_ModeValidatedBeforeSend ==
    (HasContent(sendRequest) /\ sendPc \notin {"idle", "json"})
        => /\ (sendRequest.mode = "resend" /\ sendRequest.resendApiKey \in {Undefined, ""})
                => Rejected400("Missing Resend API Key")
           /\ (/\ sendRequest.mode = "smtp"
               /\ \E f \in {"host", "user", "pass"} : sendRequest.smtp[f] \in {Undefined, ""})
                => Rejected400("Missing SMTP configuration")
           /\ (/\ sendRequest.mode = "smtp"
               /\ \A f \in {"host", "user", "pass"} : sendRequest.smtp[f] \notin {Undefined, ""}
               /\ sendRequest.email.from \in {Undefined, ""})
                => Rejected400("Missing sender email address")

C14_Witness ==
    /\ HasContent(sendRequest)
    /\ sendRequest.mode = "smtp"
    /\ \A f \in {"host", "user", "pass"} : sendRequest.smtp[f] = "v"
    /\ sendRequest.email.from = Undefined
    /\ sendPc = "done"
    /\ Len(responses) = 1

\* C15: a request gets one response and at most one send attempt: none
\* while it is being handled, exactly one once it is done; success is
\* answered only after the transport accepted the message, 400 with
\* Resend's message when Resend reports an error, 500 with the thrown
\* error's message (or "Failed to send email") when something throws,
\* malformed JSON included.
C15_OneResponseOneAttempt ==
    /\ sendAttempts <= 1
    /\ Len(responses) = (IF sendPc = "done" THEN 1 ELSE 0)
    /\ sendPc = "done" =>
        LET r == responses[1] IN
        /\ r.success => (r.status = 200 /\ sendOutcome.kind = "accepted" /\ sendAttempts = 1)
        /\ sendOutcome.kind = "accepted" => r.success
        /\ sendOutcome.kind = "reported"
            => r = [status |-> 400, success |-> FALSE, error |-> sendOutcome.message]
        /\ sendOutcome.kind = "threw"
            => r = [status |-> 500, success |-> FALSE,
                    error |-> IF sendOutcome.isError THEN sendOutcome.message
                              ELSE "Failed to send email"]
        /\ sendRequest.body = "malformed" => (r.status = 500 /\ sendAttempts = 0)

C15_Witness ==
    /\ sendPc = "done"
    /\ sendRequest.mode = "resend"
    /\ sendOutcome.kind = "reported"
    /\ sendAttempts = 1
    /\ Len(responses) = 1

-----------------------------------------------------------------------------
(* The keydown listener of the locked-region hook.  A key event is its key *)
(* code and the ctrlKey, metaKey and shiftKey flags; the selection is the  *)
(* editor's at the time of the event.                                      *)

navigationKeys ==
    {"LeftArrow", "RightArrow", "UpArrow", "DownArrow", "Home", "End", "PageUp",
     "PageDown", "Escape", "F1", "F2", "F3", "F5", "F6", "F7", "F8", "F9", "F10",
     "F11", "F12"}

\* the key codes pressed: those the listener names and some it does not
KeyCodes ==
    navigationKeys
    \cup {"Shift", "Ctrl", "Alt", "Meta"}
    \cup {"KeyC", "KeyA", "KeyF", "KeyZ", "KeyY"}
    \cup {"KeyX", "KeyV", "Enter", "Backspace", "Delete", "Tab", "F4"}

KeyEvents == [keyCode : KeyCodes, ctrlKey : BOOLEAN, metaKey : BOOLEAN, shiftKey : BOOLEAN]

NoSelection == Range(0, 0, 0, 0)

\* editor.getSelection(): none, or a cursor at the start of a line
Selections(text) == {NoSelection} \cup {Range(l, 1, l, 1) : l \in 1..Len(text)}

isAllowedKey_NavigationOnly(e) == e.keyCode \in navigationKeys

\* lines 205-222: the keys the listener lets through in a locked region
isAllowedKey(e) ==
    LET isNavigation == e.keyCode \in navigationKeys
        isModifier   == e.keyCode \in {"Shift", "Ctrl", "Alt", "Meta"}
        isCtrlCmd    == e.ctrlKey \/ e.metaKey
        isCopy       == isCtrlCmd /\ e.keyCode = "KeyC"
        isSelectAll  == isCtrlCmd /\ e.keyCode = "KeyA"
        isFind       == isCtrlCmd /\ e.keyCode = "KeyF"
        isUndo       == isCtrlCmd /\ e.keyCode = "KeyZ"
        isRedo       == isCtrlCmd /\ (e.keyCode = "KeyY" \/ (e.shiftKey /\ e.keyCode = "KeyZ"))
    IN  isNavigation \/ isModifier \/ isCopy \/ isSelectAll \/ isFind \/ isUndo \/ isRedo

\* editor.onKeyDown listener
onKeyDown(e, selection) ==
    /\ editorMounted
    /\ LET isInLocked == /\ selection # NoSelection
                         /\ isRangeInLockedRegion(selection, lockedRegionsRef)
           blocked    == isInLocked /\ ~isAllowedKey(e)
       IN  /\ lastKey' = [set |-> TRUE, keyCode |-> e.keyCode, ctrlKey |-> e.ctrlKey,
                          metaKey |-> e.metaKey, shiftKey |-> e.shiftKey,
                          inLocked |-> isInLocked, defaultPrevented |-> blocked,
                          propagationStopped |-> blocked, warned |-> blocked]
           /\ hookTimers' = IF blocked THEN showWarning(hookTimers) ELSE hookTimers
           /\ lockedWarning' = IF blocked THEN "Cannot edit locked region"
                               ELSE lockedWarning
    /\ UNCHANGED <<modelValue, editorMounted, lockedRegionsRef, previousContentRef,
                   isUndoingRef, changeCount, lastChange>>
    /\ UNCHANGED <<storeVars, compVars, editorVars, scanVars, idVars, canvasVars, sendVars,
                   overlapVars, editModeVars>>

KeyDown ==
    /\ editorMounted
    /\ \E e \in KeyEvents, selection \in Selections(modelValue) : onKeyDown(e, selection)

KeysNext == setupLockedRegions \/ KeyDown \/ WarningTimerFire

SpecKeys == HookInit /\ [][KeysNext]_vars

\* C18: when the selection overlaps a locked region, the keydown listener
\* prevents every key (preventDefault, stopPropagation, warning) except the
\* navigation keys, the modifier keys themselves, and C, A, F, Z, Y pressed
\* with Ctrl or Cmd (Ctrl/Cmd+Shift+Z among them); when the selection
\* overlaps no locked region it prevents nothing and shows no warning.
C18_KeysBlockedInLockedRegion ==
    lastKey.set =>
        LET exempt ==
                \/ lastKey.keyCode \in {"LeftArrow", "RightArrow", "UpArrow", "DownArrow",
                                        "Home", "End", "PageUp", "PageDown", "Escape"}
                \/ lastKey.keyCode \in {"F1", "F2", "F3", "F5", "F6", "F7", "F8", "F9",
                                        "F10", "F11", "F12"}
                \/ lastKey.keyCode \in {"Shift", "Ctrl", "Alt", "Meta"}
                \/ /\ lastKey.ctrlKey \/ lastKey.metaKey
                   /\ lastKey.keyCode \in {"KeyC", "KeyA", "KeyF", "KeyZ", "KeyY"}
            acted == /\ lastKey.defaultPrevented
                     /\ lastKey.propagationStopped
                     /\ lastKey.warned
            passed == /\ ~lastKey.defaultPrevented
                      /\ ~lastKey.propagationStopped
                      /\ ~lastKey.warned
        IN  IF lastKey.inLocked /\ ~exempt THEN acted ELSE passed

C18_Witness ==
    /\ lastKey.set
    /\ lastKey.inLocked
    /\ lastKey.keyCode = "KeyZ"
    /\ lastKey.shiftKey
    /\ lastKey.metaKey
    /\ ~lastKey.defaultPrevented
    /\ lockedWarning = "Cannot edit locked region"

-----------------------------------------------------------------------------
(* isRangeInLockedRegion as a function: every range and every list of up   *)
(* to two regions over a small grid of lines and columns.                   *)

\* the grid of positions
MaxRangeLine == 2
MaxRangeColumn == 2

Positions == (1..MaxRangeLine) \X (1..MaxRangeColumn)

\* (line, column) order
PosLeq(p, q) == p[1] < q[1] \/ (p[1] = q[1] /\ p[2] <= q[2])

\* the ranges the editor reports: start at or before end
OverlapRanges ==
    {Range(p[1], p[2], q[1], q[2]) : <<p, q>> \in {pq \in Positions \X Positions :
                                                    PosLeq(pq[1], pq[2])}}

\* the regions findLockedRegions reports: start at or before end
OverlapRegions ==
    {[startLine |-> pq[1][1], endLine |-> pq[2][1], startColumn |-> pq[1][2],
      endColumn |-> pq[2][2]] : pq \in {pq \in Positions \X Positions :
                                          PosLeq(pq[1], pq[2])}}

OverlapRegionLists ==
    {<<>>} \cup {<<r>> : r \in OverlapRegions}
           \cup {<<r1, r2>> : r1 \in OverlapRegions, r2 \in OverlapRegions}

OverlapInit ==
    /\ CompIdle /\ EditorIdle /\ ScanIdle /\ HookIdle /\ IdsIdle /\ CanvasIdle /\ SendIdle /\ KeysIdle /\ EditModeIdle
    /\ StoreIdle
    /\ ovRange \in OverlapRanges
    /\ ovRegions \in OverlapRegionLists
    /\ ovResult = NoReturn

CheckRange ==
    /\ ovResult = NoReturn
    /\ ovResult' = [set |-> TRUE, value |-> isRangeInLockedRegion(ovRange, ovRegions)]
    /\ UNCHANGED <<ovRange, ovRegions>>
    /\ UNCHANGED notOverlapVars

SpecOverlap == OverlapInit /\ [][CheckRange]_vars

\* a position as one number that grows in (line, column) order
PosKey(line, column) == line * (MaxRangeColumn + 1) + column

\* the positions a range or region covers, both ends included
Covered(startKey, endKey) == {k \in 0..PosKey(MaxRangeLine, MaxRangeColumn) :
                                 startKey <= k /\ k <= endKey}

\* C20: isRangeInLockedRegion returns true exactly when some region and the
\* range, both taken with their end positions included and compared in
\* (line, column) order, have a position in common: the range starts at or
\* before the region's end and ends at or after its start.  It returns
\* false for the empty list and for a range entirely before or entirely
\* after every region.
C20_InclusiveOverlap ==
    ovResult.set =>
        LET rs == PosKey(ovRange.startLineNumber, ovRange.startColumn)
            re == PosKey(ovRange.endLineNumber, ovRange.endColumn)
            gs(g) == PosKey(g.startLine, g.startColumn)
            ge(g) == PosKey(g.endLine, g.endColumn)
            regs == {ovRegions[i] : i \in 1..Len(ovRegions)}
        IN  /\ ovResult.value = (\E g \in regs : rs <= ge(g) /\ re >= gs(g))
            /\ ovResult.value = (\E g \in regs :
                                    Covered(rs, re) \cap Covered(gs(g), ge(g)) # {})
            /\ ovRegions = <<>> => ~ovResult.value
            /\ (\A g \in regs : re < gs(g) \/ rs > ge(g)) => ~ovResult.value

C20_Witness ==
    /\ ovResult.set
    /\ ovResult.value
    /\ Len(ovRegions) = 1
    /\ ovRange.startLineNumber = ovRegions[1].endLine
    /\ ovRange.startColumn = ovRegions[1].endColumn
    /\ ovRange.endLineNumber > ovRange.startLineNumber

-----------------------------------------------------------------------------
(* Edit mode: the document shown as sections of columns of blocks, with an *)
(* "Add block" button under every column and one under the whole body.     *)

\* most nodes of the document, and the last identifier handed out
MaxEditNodes == 5
MaxEditId == 8

\* blockTypes of AddBlockButton
blockTypes == {"mj-text", "mj-image", "mj-button", "mj-divider"}

\* the documents edit mode is opened on (ids 1..3 taken): the new document,
\* a body with no section, a body whose section has no column, and a body
\* whose first section has no column while its second has one.  The last
\* three are what the source editor's sync puts into the store for markup
\* such as <mj-body></mj-body>.
EditDocuments ==
    LET body == createNode("mj-body", {}, 1)
        sec(id) == createNode("mj-section", {}, id)
    IN  {emptyDocument,
         body,
         AddChildTo(body, 1, sec(2)),
         AddChildTo(AddChildTo(AddChildTo(body, 1, sec(2)), 1, sec(3)),
                    3, createNode("mj-column", {}, 4))}

\* the parentId of every AddBlockButton that EditMode renders: the body's,
\* and one for every child of every child of the body
AddBlockButtons(root) ==
    {root.id}
    \cup UNION {{root.children[i].children[j].id : j \in 1..Len(root.children[i].children)}
                : i \in 1..Len(root.children)}

\* the nodes EditBlock renders: the children of those columns
EditBlocks(root) ==
    UNION {{n.children[k].id : k \in 1..Len(n.children)}
           : n \in {NodeById(root, id) : id \in AddBlockButtons(root) \ {root.id}}}

\* getTargetParentId of the button with this parentId
getTargetParentId(root, parentId) ==
    IF ~\E n \in AllNodes(root) : n.id = parentId THEN parentId
    ELSE LET parent == NodeById(root, parentId)
         IN  IF /\ parent.type = "mj-body"
                /\ Len(parent.children) >= 1
                /\ parent.children[1].type = "mj-section"
                /\ Len(parent.children[1].children) >= 1
                /\ parent.children[1].children[1].type = "mj-column"
             THEN parent.children[1].children[1].id
             ELSE parentId

EditModeInit ==
    /\ CompIdle /\ EditorIdle /\ ScanIdle /\ HookIdle /\ IdsIdle /\ CanvasIdle /\ SendIdle /\ KeysIdle /\ OverlapIdle
    /\ document \in EditDocuments
    /\ nextId = 5
    /\ headSettings = NoHead
    /\ lastBlock = NoBlock

\* handleAddBlock(type) of the button with this parentId
handleAddBlock(parentId, type) ==
    /\ NodeCount(document) < MaxEditNodes
    /\ nextId <= MaxEditId
    /\ LET targetId == getTargetParentId(document, parentId)
           after    == addNode(document, targetId, type, NoIndex, nextId)
       IN  /\ document' = after
           /\ lastBlock' = [set |-> TRUE, parentId |-> parentId, type |-> type,
                            targetId |-> targetId,
                            targetType |-> NodeById(document, targetId).type,
                            inserted |-> after # document]
    /\ nextId' = nextId + 1
    /\ UNCHANGED headSettings
    /\ UNCHANGED notEditModeVars

\* handleDelete of the block with this id
handleDelete(nodeId) ==
    /\ document' = RemoveNodeFrom(document, nodeId)
    /\ UNCHANGED <<nextId, headSettings, lastBlock>>
    /\ UNCHANGED notEditModeVars

AddBlock ==
    \E parentId \in AddBlockButtons(document), type \in blockTypes :
        handleAddBlock(parentId, type)

DeleteBlock == \E nodeId \in EditBlocks(document) : handleDelete(nodeId)

EditModeNext == AddBlock \/ DeleteBlock

SpecEditMode == EditModeInit /\ [][EditModeNext]_vars

\* C21: every block added through an AddBlockButton is inserted, and under
\* a parent that may contain it, an mj-column, whatever the shape of the
\* document: also when the body is empty or its first child is not a
\* section whose first child is a column.
C21_BlocksGoUnderColumns ==
    lastBlock.set =>
        /\ lastBlock.targetType = "mj-column"
        /\ canContain(lastBlock.targetType, lastBlock.type)
        /\ lastBlock.inserted

=============================================================================
